---- MODULE Spec2Model ----
(***************************************************************************)
(* ItoSub: live subtitle pipeline.                                         *)
(*                                                                         *)
(* A verification model of the bounded queues (SubtitleBus, the            *)
(* translation job queue), the overlay's merge policy and the subtitle     *)
(* segmenter.  Text is a sequence of one-character strings; timestamps     *)
(* are integer ticks.                                                      *)
(***************************************************************************)
EXTENDS Integers, Sequences, FiniteSets, TLC

VARIABLES
    \* ---- configuration of one run (args) ----
    queue_maxsize,      \* args.queue_maxsize
    async_translate,    \* args.async_translate
    max_lines,          \* overlay.cfg.max_lines
    \* ---- shared state of the asynchronous pipeline ----
    bus,                \* SubtitleBus.q
    jobs,               \* the jobs queue of _run_worker
    stop_event,         \* threading.Event
    metrics,            \* en_commits, ja_commits, queue_drops
    pc,                 \* position of each thread
    item,               \* the line / job each thread holds
    evicted,            \* what the drop-oldest call a thread is in has evicted
    lines,              \* SubtitleOverlay._lines
    flushing,           \* the pipeline thread is in the finally block of _run_worker
    reported,           \* <<the metrics logged by worker_stop>>, <<>> before
    \* ---- history of the pipeline (observers, not program state) ----
    pushLog,            \* outcome of the last SubtitleBus.push that returned
    putLog,             \* outcome of the last _queue_put_drop_oldest that returned
    pPushed,            \* SubtitleBus.push calls the pipeline thread has returned from
    \* ---- sequential drop-oldest scenario ----
    sq,                 \* the queue under test
    sqCap,              \* its capacity
    sqPushed,           \* items pushed so far, in order
    sqDrops,            \* number of pushes that reported a drop
    sqOut,              \* items popped so far, in order
    sqPhase,            \* "push" | "drain" | "done"
    sb,                 \* a SubtitleBus given the same items
    sbOut,              \* lines popped from it so far, in order
    \* ---- overlay window driven directly (merge_subtitle_line / add_line) ----
    win,                \* SubtitleOverlay._lines
    winMax,             \* cfg.max_lines
    winPrev,            \* the window before the last add_line
    winNew,             \* the line given to the last add_line
    winOp,              \* "init" | "add" | "settings": the last operation on it
    \* ---- SubtitleSegmenter ----
    _buf,               \* the buffered fragments
    _t0, _t1, _last_end,\* Optional[float]: <<>> is None, <<t>> a time
    segOut,             \* what the last push / flush returned
    segOp,              \* "init" | "push" | "flush": the last operation
    segPending,         \* fragments accepted since the last commit
    segBefore,          \* segPending before the last operation
    segLast,            \* <<the last accepted fragment>>, <<>> before the first
    segOrdered,         \* every accepted fragment had t0 <= t1 and did not start
                        \* before the fragment accepted before it
    \* ---- SubtitleSegmenter: the order of the lines it emits ----
    ordEmitted,         \* <<times of the last line emitted before the last call>>
    ordLast,            \* <<times of the last accepted fragment>>, <<>> before
    ordMono,            \* no accepted fragment started or ended before the
                        \* fragment accepted before it
    \* ---- LiveUtteranceTranscriber ----
    silence_chunks_to_finalize, min_utter_sec,
    max_utter_sec,      \* Optional[float]: <<>> is None, <<m>> a duration
    chunk_ticks,        \* duration of every chunk the microphone yields
    utter_parts,        \* the chunks of the open utterance (their numbers)
    utter_t0, utter_bytes, in_utterance, trailing_silence,
    livePc,             \* "loop": in the for loop of run(); "end": run() returned
    liveChunks,         \* the stream so far: is_speech of chunk 1, 2, ...
    liveFinals,         \* every _finalize_utterance call, in order
    liveCalls,          \* every transcribe_utterance call, in order
    liveAsr,            \* every on_asr callback, in order
    liveRaised,         \* transcribe_utterance calls that raised, so far
    \* ---- _drain_subtitle_bus called on a bus (the UI tick) ----
    drBus,              \* SubtitleBus.q
    drCap,              \* its capacity
    drPushed,           \* lines pushed to it so far
    drOp,               \* "init" | "push" | "drain": the last operation
    drN,                \* max_items of the last drain
    drBefore,           \* the bus before the last drain
    drCalls,            \* the overlay.add_line calls of the last drain, in order
    drRet,              \* what the last drain returned
    \* ---- the pipeline with a translator that may raise ----
    trRaised,           \* _translate_text calls that raised, for each thread
    unwinding,          \* an exception is propagating out of _run_worker
    \* ---- the application (main.py): start, stop, pause, the timer tick ----
    state,              \* RuntimeStateTracker.state
    last_error,         \* RuntimeStateTracker.last_error: <<>> is None
    worker_generation,
    worker_thread,      \* "none": None; "alive" | "dead": is_alive()
    app_stop_event,     \* main.py's stop_event: "none" is None, "clear" | "set"
    asr_runtime_ready,
    ready_q, err_q,     \* queue.Queue(maxsize=8) each
    loading,            \* overlay.set_loading: "off" | "preparing" | "ready"
    loading_hide_deadline, \* TRUE: a deadline is pending (> 0.0)
    appReady,           \* generations whose worker has called on_ready
    tickFound,          \* what the last tick found about the worker thread
    \* ---- successive runs of _run_worker on the one SubtitleBus ----
    rsGen,              \* worker_generation: the number of the current run
    rsStop,             \* the stop_event of each run
    rsP,                \* the pipeline thread of each run: "none" | "run" | "done"
    rsW,                \* its translate worker: "none" | "check" | "get" |
                        \* "translate" | "push" | "exit"
    rsJobs,             \* the jobs queue of each run
    rsItem,             \* the job / line the worker of each run holds
    rsCommits,          \* lines committed so far, by all runs
    rsBus,              \* the shared bus; each entry notes whether it was pushed late
    rsLines,            \* SubtitleOverlay._lines
    rsShown,            \* the note of the last translated line handed to add_line:
                        \* "none" | "fresh" | "stale"
    rsTranslated,       \* jobs each worker has translated
    rsJaPushed,         \* translated lines each worker has pushed
    \* ---- utterances_from_audio_chunks (the frame-VAD chunker) ----
    frame_ms, min_speech_ms, end_silence_ms,   \* UtteranceConfig, in ticks
    ckChannels,         \* chunk.channels
    ckChunkFrames,      \* whole frames in every chunk
    ckChunkRem,         \* ticks of audio left over at the end of every chunk
    in_utt, speech_frames, silence_run, utter_pcm_parts,
    utt_t0, utt_t1,     \* utter_t0, utter_t1 of the chunker
    frame_time,
    ckPc,               \* "off" | "loop": in the loop over the chunks | "end"
    ckFrames,           \* the frames so far: is_speech of frame 1, 2, ...
    ckOut,              \* the AudioChunks yielded, in order
    ckFinals,           \* every maybe_emit call that found an utterance open
    \* ---- EnergyVAD ----
    rms_threshold,      \* EnergyVAD.rms_threshold
    vadPc,              \* "off" | "new": to be constructed | "invalid": the
                        \* constructor raised | "ready" | "done": is_speech returned
    vadBuf,             \* the PCM16 buffer given to is_speech, as its samples
    vadResult,          \* what is_speech returned
    \* ---- _dedupe_repeated_words ----
    ddText,             \* the text given to _dedupe_repeated_words
    ddOut,              \* what it returned
    ddPc,               \* "off" | "new": not called yet | "done"
    \* ---- _iter_committed_lines ----
    flOp,               \* "off" | "init" | "call": _iter_committed_lines returned
    flEn,               \* en of the last call: the fragment after stutter-collapsing
    flPushed,           \* whether the last call called segmenter.push
    flYield,            \* the lines the last call yields
    flBefore,           \* the segmenter as the last call found it
    \* ---- RuntimeStateTracker by itself ----
    tkOp,               \* "off" | "init" | the method called last
    tkPrev,             \* the tracker as that call found it
    \* ---- build_live_overlay_services ----
    svArgs,             \* args: language_lock, model, gap_sec, hard_max_chars
    svPc,               \* "off" | "new": not called yet | "built"
    svBuilt,            \* what the transcriber and the segmenter were constructed with
    \* ---- SubtitleSegmenter, each call observed ----
    sxOp,               \* "off" | "init" | "push" | "flush": the last call
    sxBefore,           \* the segmenter as the last call found it
    sxFrag,             \* the stripped text and the timestamps of the last push
    sxOut,              \* the lines the last call returned
    sxSeen,             \* the end of the last fragment accepted, <<>> if none
    sxPrevEnd,          \* the same, as the last call found it
    \* ---- SubtitleSegmenter, its text from first push to final flush ----
    shOp,               \* "off" | "init" | "push" | "flush": the last call
    shPushed,           \* the stripped text of every non-blank fragment pushed
    shEmitted,          \* the text of every line returned, in order
    \* ---- _translator_loop and its stop signal ----
    wsStop,             \* stop_event.is_set()
    wsPc,               \* "off" | "check" | "get" | "translate" | "push" | "exit"
    wsJobs,             \* the jobs queue
    wsItem,             \* the job the worker holds, 0 for none
    wsMade,             \* jobs enqueued so far
    wsAfterStop,        \* jobs finished since the stop signal was set
    \* ---- the settings dialog of the application ----
    args_model,         \* args.model, a setting whose change restarts the runtime
    args_ui_language,   \* args.ui_language, a setting that needs no restart
    settingsFound,      \* what the last _open_settings call found and left
    \* ---- the paused overlay and the drain of the bus ----
    pzState,            \* RuntimeStateTracker.state: RUNNING | PAUSED
    pzPaused,           \* SubtitleOverlay._paused
    pzBus,              \* the SubtitleBus
    pzLines,            \* SubtitleOverlay._lines
    pzJobs,             \* committed lines whose translation is still to come
    pzMade,             \* lines committed so far
    pzLost,             \* the lines handed to add_line while the overlay was paused
    pzTick              \* the last tick: what it found and what it left

qvars   == <<queue_maxsize, async_translate, max_lines, bus, jobs, stop_event,
             metrics, pc, item, evicted, lines, flushing, reported, pushLog, putLog,
             pPushed>>
sqvars  == <<sq, sqCap, sqPushed, sqDrops, sqOut, sqPhase, sb, sbOut>>
winvars == <<win, winMax, winPrev, winNew, winOp>>
segvars == <<_buf, _t0, _t1, _last_end, segOut, segOp, segPending, segBefore,
             segLast, segOrdered>>
ordvars == <<ordEmitted, ordLast, ordMono>>
livevars == <<silence_chunks_to_finalize, min_utter_sec, max_utter_sec, chunk_ticks,
              utter_parts, utter_t0, utter_bytes, in_utterance, trailing_silence,
              livePc, liveChunks, liveFinals, liveCalls, liveAsr, liveRaised>>
drainvars == <<drBus, drCap, drPushed, drOp, drN, drBefore, drCalls, drRet>>
faultvars == <<trRaised, unwinding>>
appvars == <<state, last_error, worker_generation, worker_thread, app_stop_event,
             asr_runtime_ready, ready_q, err_q, loading, loading_hide_deadline,
             appReady, tickFound>>
restartvars == <<rsGen, rsStop, rsP, rsW, rsJobs, rsItem, rsCommits, rsBus, rsLines,
                 rsShown, rsTranslated, rsJaPushed>>
chunkvars == <<frame_ms, min_speech_ms, end_silence_ms, ckChannels, ckChunkFrames,
               ckChunkRem, in_utt, speech_frames, silence_run, utter_pcm_parts,
               utt_t0, utt_t1, frame_time, ckPc, ckFrames, ckOut, ckFinals>>
vadvars == <<rms_threshold, vadPc, vadBuf, vadResult>>
ddvars == <<ddText, ddOut, ddPc>>
flvars == <<flOp, flEn, flPushed, flYield, flBefore>>
tkvars == <<tkOp, tkPrev>>
svvars == <<svArgs, svPc, svBuilt>>
sxvars == <<sxOp, sxBefore, sxFrag, sxOut, sxSeen, sxPrevEnd>>
shvars == <<shOp, shPushed, shEmitted>>
wsvars == <<wsStop, wsPc, wsJobs, wsItem, wsMade, wsAfterStop>>
cfgvars == <<args_model, args_ui_language, settingsFound>>
pzvars == <<pzState, pzPaused, pzBus, pzLines, pzJobs, pzMade, pzLost, pzTick>>
latevars == <<ddvars, flvars, tkvars, svvars, sxvars, shvars, wsvars, cfgvars,
             pzvars>>
extvars == <<drainvars, faultvars, appvars, restartvars, chunkvars, vadvars, latevars>>
vars    == <<qvars, sqvars, winvars, segvars, ordvars, livevars, extvars>>

\* What no action of the pipeline changes: its configuration and the other components.
fixed   == <<queue_maxsize, async_translate, max_lines, sqvars, winvars, segvars,
             ordvars, livevars, extvars>>

None == "None"

\* no line, no job: what a thread holds when it holds nothing
NoItem == [none |-> TRUE]

\* ------------------------------------------------------------------ bounds
NumLines      == 3   \* lines the pipeline commits in one run
MaxQueueArg   == 2   \* args.queue_maxsize ranges over 0..MaxQueueArg
JobsMax       == 2   \* capacity of the jobs queue (200 in the program)
MaxLinesCfg   == 2   \* cfg.max_lines ranges over 1..MaxLinesCfg
MaxSeqCap     == 4   \* sequential scenario: the capacity ranges over 1..MaxSeqCap
MaxOver       == 3   \* sequential scenario: at most capacity + MaxOver pushes
MaxT          == 2   \* segmenter: timestamps range over 0..MaxT
GapSec        == 1   \* segmenter: gap_sec, in ticks
HardMaxChars  == 4   \* segmenter: hard_max_chars (at least 20 in the program)
MaxChunks     == 5   \* live transcriber: chunks the stream yields in one run
MaxSilenceChunks == 2 \* live transcriber: silence_chunks_to_finalize in 1..MaxSilenceChunks
MaxMinUtter   == 2   \* live transcriber: min_utter_sec in 0..MaxMinUtter, in ticks
MaxMaxUtter   == 3   \* live transcriber: max_utter_sec is None or in 1..MaxMaxUtter
MaxDrainCap   == 3   \* capacity of the bus that is drained
MaxDrainPushes == 4  \* lines pushed to it
MaxDrainArg   == 3   \* max_items of a drain
MaxGeneration == 3   \* runs started in one session
MaxRuns       == 2   \* runs of _run_worker on the one bus
RsLines       == 2   \* lines they commit altogether
RsBusCap      == 2   \* capacity of the shared bus
RsWindow      == 2   \* cfg.max_lines of the overlay
MaxFrames     == 5   \* frames of one stream given to the chunker
MaxFrameMs    == 2   \* cfg.frame_ms, in ticks
MaxSpeechMs   == 3   \* cfg.min_speech_ms and cfg.end_silence_ms, in ticks
MaxChannels   == 2   \* chunk.channels
MaxChunkFrames == 2  \* whole frames in a chunk
MaxChunkRem   == 1   \* ticks left over at the end of a chunk
MaxAmp        == 2   \* largest sample magnitude in a buffer
MaxBuf        == 3   \* samples in a buffer
MaxThreshold  == 3   \* rms_threshold
MaxTextLen    == 7   \* characters of a text given to _dedupe_repeated_words
MaxGapArg     == 2   \* args.gap_sec ranges over -1..MaxGapArg, in ticks
MaxHardArg    == 22  \* args.hard_max_chars ranges over 18..MaxHardArg
MaxSegPushes  == 3   \* non-blank fragments pushed to the segmenter that is followed
MaxStopJobs   == 4   \* jobs the runner thread puts during one run of the worker
MaxChunkTicks == 2   \* live transcriber: a chunk lasts 1..MaxChunkTicks ticks

Max(a, b) == IF a >= b THEN a ELSE b

\* ------------------------------------------------------------------- text
\* str.strip(): leading and trailing whitespace removed.
RECURSIVE LStrip(_)
LStrip(s) == IF s # <<>> /\ Head(s) = " " THEN LStrip(Tail(s)) ELSE s

RECURSIVE RStrip(_)
RStrip(s) ==
    IF s # <<>> /\ s[Len(s)] = " " THEN RStrip(SubSeq(s, 1, Len(s) - 1)) ELSE s

Strip(s) == RStrip(LStrip(s))

\* " ".join(parts)
RECURSIVE Join(_)
Join(parts) ==
    IF parts = <<>> THEN <<>>
    ELSE IF Len(parts) = 1 THEN parts[1]
    ELSE parts[1] \o <<" ">> \o Join(Tail(parts))

\* (mutant) an off-by-one slice, lst[-(n + 1):]
LastNOffByOne(s, n) == IF Len(s) <= n + 1 THEN s ELSE SubSeq(s, Len(s) - n, Len(s))

\* lst[-n:] for n >= 1
LastN(s, n) == IF Len(s) <= n THEN s ELSE SubSeq(s, Len(s) - n + 1, Len(s))

\* ----------------------------------------------------------- queue.Queue
\* queue.Queue(maxsize): maxsize <= 0 means unbounded.
QFull(q, maxsize) == maxsize > 0 /\ Len(q) >= maxsize

\* put_nowait: ok = FALSE stands for queue.Full
PutNowait(q, maxsize, x) ==
    IF QFull(q, maxsize) THEN [ok |-> FALSE, q |-> q]
    ELSE [ok |-> TRUE, q |-> Append(q, x)]

\* get_nowait: ok = FALSE stands for queue.Empty
GetNowait(q) ==
    IF q = <<>> THEN [ok |-> FALSE, q |-> q, x |-> NoItem]
    ELSE [ok |-> TRUE, q |-> Tail(q), x |-> Head(q)]

\* ---------------------------------------------------------------- overlay
NoLine == [en |-> <<>>, ja |-> <<>>, t0 |-> 0, t1 |-> 0]

SameLine(a, b) == a.en = b.en /\ a.ja = b.ja /\ a.t0 = b.t0 /\ a.t1 = b.t1

\* The pending entry a translated line replaces: same stripped English text,
\* blank translation, same (t0, t1).
Pending(prev, new) ==
    /\ Strip(prev.en) = Strip(new.en)
    /\ Strip(prev.ja) = <<>>
    /\ prev.t0 = new.t0 /\ prev.t1 = new.t1

\* (mutant) the pending entry is not replaced: the translated line is appended
merge_append_translation(ls, new, maxl) ==
    LET keep == Max(1, maxl)
    IN  IF \E i \in 1..Len(ls) : SameLine(ls[i], new)
        THEN LastN(ls, keep)
        ELSE LastN(Append(ls, new), keep)

\* (mutant) the exact-duplicate check is missing
merge_no_dedupe(ls, new, maxl) ==
    LET keep == Max(1, maxl)
        hits == {i \in 1..Len(ls) : Pending(ls[i], new)}
    IN  IF new.ja # <<>> /\ hits # {}
        THEN LET i == CHOOSE k \in hits : \A m \in hits : m <= k
             IN  LastN([ls EXCEPT ![i] = new], keep)
        ELSE LastN(Append(ls, new), keep)

merge_subtitle_line(ls, new, maxl) ==
    LET keep == Max(1, maxl)
        hits == {i \in 1..Len(ls) : Pending(ls[i], new)}
    IN  IF \E i \in 1..Len(ls) : SameLine(ls[i], new)
        THEN LastN(ls, keep)
        ELSE IF new.ja # <<>> /\ hits # {}
        THEN LET i == CHOOSE k \in hits : \A m \in hits : m <= k
             IN  LastN([ls EXCEPT ![i] = new], keep)
        ELSE LastN(Append(ls, new), keep)

\* (mutant) add_line does not look at _paused
add_line_while_paused(ls, line, paused, maxl) ==
    LastN(merge_subtitle_line(ls, line, Max(1, maxl)), Max(1, maxl))

\* SubtitleOverlay.add_line
add_line(ls, line, paused, maxl) ==
    IF paused THEN ls
    ELSE LastN(merge_subtitle_line(ls, line, Max(1, maxl)), Max(1, maxl))

\* --------------------------------------------------------------- pipeline
Threads == {"P", "W"}   \* pipeline thread, translation worker

\* The n-th line the segmenter commits in a run; start times do not decrease.
EnText(n) == IF n % 2 = 1 THEN <<"a", ".">> ELSE <<"b", ".">>
_translate_text(en) == <<"j">> \o en
LineEN(n) == [en |-> EnText(n), ja |-> <<>>, t0 |-> n, t1 |-> n]
LineJA(l) == [en |-> l.en, ja |-> _translate_text(l.en), t0 |-> l.t0, t1 |-> l.t1]

\* (mutant) the floor of 1 forgotten: queue.Queue(maxsize=0) is unbounded
BusCapNoFloor == queue_maxsize

\* SubtitleBus(maxsize=max(1, int(args.queue_maxsize)))
BusCap == Max(1, queue_maxsize)
\* queue.Queue(maxsize=200)
JobsCap == JobsMax

InitPipeline ==
    /\ queue_maxsize \in 0..MaxQueueArg
    /\ async_translate \in BOOLEAN
    /\ max_lines \in 1..MaxLinesCfg
    /\ bus = <<>>
    /\ jobs = <<>>
    /\ stop_event = FALSE
    /\ metrics = [en_commits |-> 0, ja_commits |-> 0, queue_drops |-> 0]
    /\ pc = [t \in Threads |->
               IF t = "P" THEN "run" ELSE IF async_translate THEN "check" ELSE "off"]
    /\ item = [t \in Threads |-> NoItem]
    /\ evicted = [t \in Threads |-> <<>>]
    /\ lines = <<>>
    /\ flushing = FALSE
    /\ reported = <<>>
    /\ pushLog = [by |-> None, line |-> NoItem, admitted |-> TRUE, evicted |-> <<>>,
                  wasFull |-> FALSE]
    /\ putLog = [by |-> None, job |-> NoItem, ret |-> FALSE, admitted |-> TRUE, evicted |-> <<>>,
                 wasFull |-> FALSE]
    /\ pPushed = 0

\* Where a thread continues when SubtitleBus.push returns.
AfterPush(t) ==
    IF t = "W" THEN "check"
    ELSE IF async_translate THEN "job_put"
    ELSE IF flushing THEN "report" ELSE "run"

PushReturn(t, admitted, ev, wasFull) ==
    /\ pc' = [pc EXCEPT ![t] = AfterPush(t)]
    /\ pushLog' = [by |-> t, line |-> item[t], admitted |-> admitted, evicted |-> ev,
                   wasFull |-> wasFull]
    /\ item' = IF t = "P" /\ async_translate THEN item ELSE [item EXCEPT ![t] = NoItem]
    /\ evicted' = [evicted EXCEPT ![t] = <<>>]
    /\ pPushed' = IF t = "P" THEN pPushed + 1 ELSE pPushed

\* SubtitleBus.push, line 20: self.q.put_nowait(line)
BusPut(t) ==
    /\ pc[t] = "push_put"
    /\ LET r == PutNowait(bus, BusCap, item[t])
       IN  /\ bus' = r.q
           /\ IF r.ok THEN PushReturn(t, TRUE, <<>>, FALSE)
              ELSE /\ pc' = [pc EXCEPT ![t] = "push_get"]
                   /\ UNCHANGED <<pushLog, item, evicted, pPushed>>
    /\ UNCHANGED <<fixed, jobs, stop_event,
                   metrics, lines, flushing, reported, putLog>>

\* SubtitleBus.push, lines 23-26: drop the oldest, or return on queue.Empty
BusGet(t) ==
    /\ pc[t] = "push_get"
    /\ LET g == GetNowait(bus)
       IN  /\ bus' = g.q
           /\ IF g.ok
              THEN /\ pc' = [pc EXCEPT ![t] = "push_put2"]
                   /\ evicted' = [evicted EXCEPT ![t] = <<g.x>>]
                   /\ UNCHANGED <<pushLog, item, pPushed>>
              ELSE PushReturn(t, FALSE, <<>>, TRUE)
    /\ UNCHANGED <<fixed, jobs, stop_event,
                   metrics, lines, flushing, reported, putLog>>

\* SubtitleBus.push, lines 27-30: the second put_nowait, or return on queue.Full
BusPut2(t) ==
    /\ pc[t] = "push_put2"
    /\ LET r == PutNowait(bus, BusCap, item[t])
       IN  /\ bus' = r.q
           /\ PushReturn(t, r.ok, evicted[t], TRUE)
    /\ UNCHANGED <<fixed, jobs, stop_event,
                   metrics, lines, flushing, reported, putLog>>

\* (mutant) in asynchronous mode the job is enqueued without the English line
\* having been pushed first
CommitEnqueuesFirst ==
    LET l == LineEN(metrics.en_commits + 1)
    IN  /\ metrics.en_commits < NumLines
        /\ metrics' = [metrics EXCEPT
                         !.en_commits = @ + 1,
                         !.ja_commits = IF async_translate THEN @ ELSE @ + 1]
        /\ item' = [item EXCEPT !["P"] = IF async_translate THEN l ELSE LineJA(l)]
        /\ pc' = [pc EXCEPT !["P"] = IF async_translate THEN "job_put" ELSE "push_put"]

\* A line is committed: en_commits is counted and, in synchronous mode, the line
\* is translated in line and ja_commits counted, before SubtitleBus.push.
Commit ==
    LET l == LineEN(metrics.en_commits + 1)
    IN  /\ metrics.en_commits < NumLines
        /\ metrics' = [metrics EXCEPT
                         !.en_commits = @ + 1,
                         !.ja_commits = IF async_translate THEN @ ELSE @ + 1]
        /\ item' = [item EXCEPT !["P"] = IF async_translate THEN l ELSE LineJA(l)]
        /\ pc' = [pc EXCEPT !["P"] = "push_put"]

\* _on_asr, lines 176-181 (async) and 205-222 (sync): _iter_committed_lines
\* yields a line.
POnAsr ==
    /\ pc["P"] = "run"
    /\ Commit
    /\ UNCHANGED <<fixed, pPushed, bus, jobs, stop_event,
                   evicted, lines, flushing, reported, pushLog, putLog>>

JobOf(l) == [t0 |-> l.t0, t1 |-> l.t1, en |-> l.en]

\* _queue_put_drop_oldest returns `ret`; the caller counts a drop when it is True.
PutReturn(ret, admitted, ev, wasFull) ==
    /\ pc' = [pc EXCEPT !["P"] = IF flushing THEN "report" ELSE "run"]
    /\ putLog' = [by |-> "P", job |-> JobOf(item["P"]), ret |-> ret, admitted |-> admitted,
                  evicted |-> ev, wasFull |-> wasFull]
    /\ metrics' = [metrics EXCEPT !.queue_drops = IF ret THEN @ + 1 ELSE @]
    /\ item' = [item EXCEPT !["P"] = NoItem]
    /\ evicted' = [evicted EXCEPT !["P"] = <<>>]

\* _queue_put_drop_oldest, lines 77-79: q.put_nowait(item); return False
JobPut ==
    /\ pc["P"] = "job_put"
    /\ LET r == PutNowait(jobs, JobsCap, JobOf(item["P"]))
       IN  /\ jobs' = r.q
           /\ IF r.ok THEN PutReturn(FALSE, TRUE, <<>>, FALSE)
              ELSE /\ pc' = [pc EXCEPT !["P"] = "job_get"]
                   /\ UNCHANGED <<putLog, metrics, item, evicted>>
    /\ UNCHANGED <<fixed, pPushed, bus, stop_event,
                   lines, flushing, reported, pushLog>>

\* _queue_put_drop_oldest, lines 81-84: q.get_nowait(), or return False on Empty
JobGet ==
    /\ pc["P"] = "job_get"
    /\ LET g == GetNowait(jobs)
       IN  /\ jobs' = g.q
           /\ IF g.ok
              THEN /\ pc' = [pc EXCEPT !["P"] = "job_put2"]
                   /\ evicted' = [evicted EXCEPT !["P"] = <<g.x>>]
                   /\ UNCHANGED <<putLog, metrics, item>>
              ELSE PutReturn(FALSE, FALSE, <<>>, TRUE)
    /\ UNCHANGED <<fixed, pPushed, bus, stop_event,
                   lines, flushing, reported, pushLog>>

\* _queue_put_drop_oldest, lines 85-89: q.put_nowait(item); return True either way
JobPut2 ==
    /\ pc["P"] = "job_put2"
    /\ LET r == PutNowait(jobs, JobsCap, JobOf(item["P"]))
       IN  /\ jobs' = r.q
           /\ PutReturn(TRUE, r.ok, evicted["P"], TRUE)
    /\ UNCHANGED <<fixed, pPushed, bus, stop_event,
                   lines, flushing, reported, pushLog>>

\* runner.run() returns (the stream ended or the stop signal was seen): the
\* finally block of _run_worker starts.
PEnd ==
    /\ pc["P"] = "run"
    /\ pc' = [pc EXCEPT !["P"] = "flush"]
    /\ flushing' = TRUE
    /\ UNCHANGED <<fixed, pPushed, bus, jobs, stop_event,
                   metrics, item, evicted, lines, reported, pushLog, putLog>>

\* _run_worker, lines 249-291: segmenter.flush() returns one line, or none.
PFlush ==
    /\ pc["P"] = "flush"
    /\ \/ Commit
       \/ /\ pc' = [pc EXCEPT !["P"] = "report"]
          /\ UNCHANGED <<metrics, item>>
    /\ UNCHANGED <<fixed, pPushed, bus, jobs, stop_event,
                   evicted, lines, flushing, reported, pushLog, putLog>>

\* _run_worker, lines 292-307: stop_event.set() and the worker_stop report
PReport ==
    /\ pc["P"] = "report"
    /\ stop_event' = TRUE
    /\ reported' = <<metrics>>
    /\ pc' = [pc EXCEPT !["P"] = IF unwinding THEN "raised" ELSE "done"]
    /\ UNCHANGED <<fixed, pPushed, bus, jobs, metrics,
                   item, evicted, lines, flushing, pushLog, putLog>>

\* _translator_loop, line 143: while not stop_event.is_set()
WCheck ==
    /\ pc["W"] = "check"
    /\ pc' = [pc EXCEPT !["W"] = IF stop_event THEN "exit" ELSE "get"]
    /\ UNCHANGED <<fixed, pPushed, bus, jobs, stop_event,
                   metrics, item, evicted, lines, flushing, reported, pushLog, putLog>>

\* _translator_loop, lines 144-147: jobs.get(timeout=0.2), continue on Empty
WGet ==
    /\ pc["W"] = "get"
    /\ LET g == GetNowait(jobs)
       IN  /\ jobs' = g.q
           /\ pc' = [pc EXCEPT !["W"] = IF g.ok THEN "translate" ELSE "check"]
           /\ item' = [item EXCEPT !["W"] = g.x]
    /\ UNCHANGED <<fixed, pPushed, bus, stop_event,
                   metrics, evicted, lines, flushing, reported, pushLog, putLog>>

\* _translator_loop, lines 148-153: translate the job, count ja_commits
WTranslate ==
    /\ pc["W"] = "translate"
    /\ item' = [item EXCEPT !["W"] = LineJA(item["W"])]
    /\ metrics' = [metrics EXCEPT !.ja_commits = @ + 1]
    /\ pc' = [pc EXCEPT !["W"] = "push_put"]
    /\ UNCHANGED <<fixed, pPushed, bus, jobs, stop_event,
                   evicted, lines, flushing, reported, pushLog, putLog>>

\* _drain_subtitle_bus, lines 31-35: bus.pop() and overlay.add_line(line)
UiPop ==
    /\ LET g == GetNowait(bus)
       IN  /\ g.ok
           /\ bus' = g.q
           /\ lines' = add_line(lines, g.x, FALSE, max_lines)
    /\ UNCHANGED <<fixed, pPushed, jobs, stop_event,
                   metrics, pc, item, evicted, flushing, reported, pushLog, putLog>>

\* _stop_runtime: stop_event.set()
UiStop ==
    /\ ~stop_event
    /\ stop_event' = TRUE
    /\ UNCHANGED <<fixed, pPushed, bus, jobs, metrics,
                   pc, item, evicted, lines, flushing, reported, pushLog, putLog>>

\* ------------------------------- the pipeline when _translate_text raises
\* What the three actions below leave alone.
FaultFixed == <<queue_maxsize, async_translate, max_lines, bus, jobs, stop_event,
                evicted, lines, reported, pushLog, putLog, pPushed,
                sqvars, winvars, segvars, ordvars, livevars, drainvars, appvars,
                restartvars, chunkvars, vadvars, latevars>>

\* _translator_loop, line 149: _translate_text raises; the loop has no handler,
\* so the thread ends with the job it held.
WTranslateRaises ==
    /\ pc["W"] = "translate"
    /\ pc' = [pc EXCEPT !["W"] = "raised"]
    /\ item' = [item EXCEPT !["W"] = NoItem]
    /\ trRaised' = [trRaised EXCEPT !["W"] = @ + 1]
    /\ UNCHANGED <<FaultFixed, metrics, flushing, unwinding>>

\* _on_asr, line 206 (sync): _translate_text raises after en_commits was
\* counted; the exception leaves _on_asr and run() and enters the finally
\* block of _run_worker (line 248).
POnAsrRaises ==
    /\ pc["P"] = "run" /\ ~async_translate
    /\ metrics.en_commits < NumLines
    /\ metrics' = [metrics EXCEPT !.en_commits = @ + 1]
    /\ pc' = [pc EXCEPT !["P"] = "flush"]
    /\ flushing' = TRUE
    /\ unwinding' = TRUE
    /\ trRaised' = [trRaised EXCEPT !["P"] = @ + 1]
    /\ UNCHANGED <<FaultFixed, item>>

\* _run_worker, line 275 (sync): _translate_text raises inside the finally
\* block; the rest of the block (stop_event.set(), worker_stop) is skipped.
PFlushRaises ==
    /\ pc["P"] = "flush" /\ ~async_translate
    /\ metrics.en_commits < NumLines
    /\ metrics' = [metrics EXCEPT !.en_commits = @ + 1]
    /\ pc' = [pc EXCEPT !["P"] = "raised"]
    /\ unwinding' = TRUE
    /\ trRaised' = [trRaised EXCEPT !["P"] = @ + 1]
    /\ UNCHANGED <<FaultFixed, item, flushing>>

\* ----------------------------------------- the overlay window by itself
\* The lines add_line is given: two English texts (the pipeline strips them);
\* empty, blank and filled translations; two time windows.
MergeEn    == {<<"a">>, <<"b">>}
MergeJa    == {<<>>, <<" ">>, <<"x">>}
MergeTimes == {<<1, 2>>, <<2, 3>>}
MergeLines ==
    {[en |-> e, ja |-> j, t0 |-> tt[1], t1 |-> tt[2]] :
        e \in MergeEn, j \in MergeJa, tt \in MergeTimes}

InitWin ==
    /\ winMax \in 1..MaxLinesCfg
    /\ win = <<>> /\ winPrev = <<>> /\ winNew = NoLine /\ winOp = "init"

\* SubtitleOverlay.add_line(line) on an overlay that is not paused
WinAddLine ==
    \E l \in MergeLines :
        /\ win' = add_line(win, l, FALSE, winMax)
        /\ winPrev' = win
        /\ winNew' = l
        /\ winOp' = "add"
        /\ UNCHANGED <<winMax, qvars, extvars, livevars, ordvars, sqvars, segvars>>

\* _apply_overlay_settings: cfg.max_lines = max(1, int(args.max_lines)), then
\* _refresh() -> _trim_history() rebuilds the deque with the new maxlen.
WinApplySettings ==
    \E m \in 0..MaxLinesCfg :
        /\ winMax' = Max(1, m)
        /\ winMax' # winMax
        /\ win' = LastN(win, winMax')
        /\ winOp' = "settings"
        /\ UNCHANGED <<winPrev, winNew, qvars, extvars, livevars, ordvars, sqvars, segvars>>

\* ------------------------------------------------------ SubtitleSegmenter
\* _END_PUNCT: . ! ? and their full-width forms U+3002, U+FF01, U+FF1F, each one
\* character, at the end of the text
EndPunctChars == {".", "!", "?", "U+3002", "U+FF01", "U+FF1F"}

EndPunct(s) == s # <<>> /\ s[Len(s)] \in EndPunctChars

SegState == [buf |-> _buf, t0 |-> _t0, t1 |-> _t1, last_end |-> _last_end]

\* _reset()
SegReset == [buf |-> <<>>, t0 |-> <<>>, t1 |-> <<>>, last_end |-> <<>>]

SegLine(s) == [text |-> Strip(Join(s.buf)), t0 |-> s.t0[1], t1 |-> s.t1[1]]

\* (mutant) flush resets the buffer and returns no line
flush_returns_nothing(s) == [seg |-> SegReset, out |-> <<>>]

\* (mutant) flush returns the line and forgets to reset the buffer
flush_keeps_buffer(s) ==
    IF s.buf = <<>> \/ s.t0 = <<>> \/ s.t1 = <<>>
    THEN [seg |-> SegReset, out |-> <<>>]
    ELSE [seg |-> s, out |-> <<SegLine(s)>>]

\* flush(): the segmenter after it, and the lines it returns
SubtitleSegmenter_flush(s) ==
    IF s.buf = <<>> \/ s.t0 = <<>> \/ s.t1 = <<>>
    THEN [seg |-> SegReset, out |-> <<>>]
    ELSE [seg |-> SegReset, out |-> <<SegLine(s)>>]

\* (mutant) the committed line is put in front of the line flushed at a pause
SegCommitPrepends(s2, out, merged) ==
    IF EndPunct(merged) \/ Len(merged) >= HardMaxChars
    THEN [seg |-> SegReset, out |-> <<[SegLine(s2) EXCEPT !.text = merged]>> \o out]
    ELSE [seg |-> s2, out |-> out]

\* (mutant) no emergency commit at hard_max_chars
SegCommitOnPunctOnly(s2, out, merged) ==
    IF EndPunct(merged)
    THEN [seg |-> SegReset, out |-> Append(out, [SegLine(s2) EXCEPT !.text = merged])]
    ELSE [seg |-> s2, out |-> out]

\* push, lines 49-61: commit on a sentence end or at hard_max_chars
SegCommitIfDue(s2, out, merged) ==
    IF EndPunct(merged) \/ Len(merged) >= HardMaxChars
    THEN [seg |-> SegReset, out |-> Append(out, [SegLine(s2) EXCEPT !.text = merged])]
    ELSE [seg |-> s2, out |-> out]

\* (mutant) the update rules of _t0 and _t1 are exchanged: the start follows
\* every fragment, the end is set by the first one only
SegAcceptSwapped(f, tx, t0, t1) ==
    LET s2 == [buf      |-> Append(f.seg.buf, tx),
               t0       |-> <<t0>>,
               t1       |-> IF f.seg.t1 = <<>> THEN <<t1>> ELSE f.seg.t1,
               last_end |-> <<t1>>]
    IN  SegCommitIfDue(s2, f.out, Strip(Join(s2.buf)))

\* (mutant) the fragment replaces the buffer instead of joining it
SegAcceptDropsBuffer(f, tx, t0, t1) ==
    LET s2 == [buf      |-> <<tx>>,
               t0       |-> IF f.seg.t0 = <<>> THEN <<t0>> ELSE f.seg.t0,
               t1       |-> <<t1>>,
               last_end |-> <<t1>>]
    IN  SegCommitIfDue(s2, f.out, Strip(Join(s2.buf)))

\* push, lines 41-47: the fragment joins the buffer
SegAccept(f, tx, t0, t1) ==
    LET s2 == [buf      |-> Append(f.seg.buf, tx),
               t0       |-> IF f.seg.t0 = <<>> THEN <<t0>> ELSE f.seg.t0,
               t1       |-> <<t1>>,
               last_end |-> <<t1>>]
    IN  SegCommitIfDue(s2, f.out, Strip(Join(s2.buf)))

\* (mutant) a gap of exactly gap_sec is a pause already
push_gap_inclusive(s, text, t0, t1) ==
    LET tx == Strip(text)
    IN  IF tx = <<>> THEN [seg |-> s, out |-> <<>>]
        ELSE IF s.last_end # <<>> /\ (t0 - s.last_end[1]) >= GapSec
        THEN SegAccept(SubtitleSegmenter_flush(s), tx, t0, t1)
        ELSE SegAccept([seg |-> s, out |-> <<>>], tx, t0, t1)

\* push(text, t0, t1): the segmenter after it, and the lines it returns
SubtitleSegmenter_push(s, text, t0, t1) ==
    LET tx == Strip(text)
    IN  IF tx = <<>> THEN [seg |-> s, out |-> <<>>]
        ELSE IF s.last_end # <<>> /\ (t0 - s.last_end[1]) > GapSec
        THEN SegAccept(SubtitleSegmenter_flush(s), tx, t0, t1)
        ELSE SegAccept([seg |-> s, out |-> <<>>], tx, t0, t1)

\* The texts pushed: blank, plain, padded, and ending a sentence.
SegTexts == {<<" ">>, <<"a">>, <<" ", "b", " ">>, <<"c", ".">>}

InitSeg ==
    /\ _buf = <<>> /\ _t0 = <<>> /\ _t1 = <<>> /\ _last_end = <<>>
    /\ segOut = <<>> /\ segOp = "init" /\ segPending = <<>> /\ segBefore = <<>>
    /\ segLast = <<>> /\ segOrdered = TRUE

SegInstall(s) ==
    /\ _buf' = s.buf /\ _t0' = s.t0 /\ _t1' = s.t1 /\ _last_end' = s.last_end

\* segmenter.push(text, t0, t1) with any text and any timestamps
SegPush ==
    \E text \in SegTexts, t0 \in 0..MaxT, t1 \in 0..MaxT :
      \E r \in {SubtitleSegmenter_push(SegState, text, t0, t1)} :
        LET frag == [text |-> Strip(text), t0 |-> t0, t1 |-> t1]
            gap  == _last_end # <<>> /\ (t0 - _last_end[1]) > GapSec
        IN  /\ SegInstall(r.seg)
            /\ segOut' = r.out
            /\ segOp' = "push"
            /\ segBefore' = segPending
            /\ IF Strip(text) = <<>>
               THEN UNCHANGED <<segPending, segLast, segOrdered>>
               ELSE /\ segPending' =
                         IF r.seg.buf = <<>> THEN <<>>
                         ELSE IF gap THEN <<frag>>
                         ELSE Append(segPending, frag)
                    /\ segLast' = <<frag>>
                    /\ segOrdered' =
                         /\ segOrdered
                         /\ t0 <= t1
                         /\ segLast # <<>> => segLast[1].t0 <= t0
            /\ UNCHANGED <<qvars, extvars, livevars, ordvars, sqvars, winvars>>

\* segmenter.flush()
SegFlush ==
    LET r == SubtitleSegmenter_flush(SegState)
    IN  /\ SegInstall(r.seg)
        /\ segOut' = r.out
        /\ segOp' = "flush"
        /\ segBefore' = segPending
        /\ segPending' = <<>>
        /\ UNCHANGED <<segLast, segOrdered, qvars, extvars, livevars, ordvars, sqvars, winvars>>


\* ------------------------------- SubtitleSegmenter: order of emitted lines
\* The same segmenter, observed for the order of the lines it returns.
OrdTimes(l) == [t0 |-> l.t0, t1 |-> l.t1]

\* The last line returned so far, once the call that returned segOut is over.
OrdRoll == IF segOut = <<>> THEN ordEmitted ELSE <<OrdTimes(segOut[Len(segOut)])>>

InitOrd == ordEmitted = <<>> /\ ordLast = <<>> /\ ordMono = TRUE

\* segmenter.push(text, t0, t1) with any text and any timestamps
OrdPush ==
    \E text \in SegTexts, t0 \in 0..MaxT, t1 \in 0..MaxT :
      \E r \in {SubtitleSegmenter_push(SegState, text, t0, t1)} :
        /\ SegInstall(r.seg)
        /\ segOut' = r.out
        /\ segOp' = "push"
        /\ ordEmitted' = OrdRoll
        /\ IF Strip(text) = <<>>
           THEN UNCHANGED <<ordLast, ordMono>>
           ELSE /\ ordLast' = <<[t0 |-> t0, t1 |-> t1]>>
                /\ ordMono' =
                     /\ ordMono
                     /\ ordLast # <<>> =>
                            ordLast[1].t0 <= t0 /\ ordLast[1].t1 <= t1
        /\ UNCHANGED <<segPending, segBefore, segLast, segOrdered,
                       qvars, extvars, livevars, sqvars, winvars>>

\* segmenter.flush()
OrdFlush ==
    LET r == SubtitleSegmenter_flush(SegState)
    IN  /\ SegInstall(r.seg)
        /\ segOut' = r.out
        /\ segOp' = "flush"
        /\ ordEmitted' = OrdRoll
        /\ UNCHANGED <<ordLast, ordMono, segPending, segBefore, segLast, segOrdered,
                       qvars, extvars, livevars, sqvars, winvars>>


\* ------------------------------------------------ LiveUtteranceTranscriber
\* One tick of audio is one byte of PCM in the model: bytes_per_second
\* (sample_rate * channels * 2) is one byte per tick.
bytes_per_second == 1

\* _duration_from_pcm16: len(pcm16) / float(bytes_per_second)
_duration_from_pcm16(nbytes) ==
    IF bytes_per_second <= 0 THEN 0 ELSE nbytes \div bytes_per_second

\* b"".join(utter_parts): every chunk holds chunk_ticks bytes
PcmLen(parts) == Len(parts) * chunk_ticks

\* chunk.start_time of chunk k (mic.chunks: frames_seen / sample_rate)
ChunkStart(k) == (k - 1) * chunk_ticks

\* What transcribe_utterance returns: no segment, a blank one, or one with text.
AsrResults == {<<>>, <<<<" ">>>>, <<<<"a", " ", "b">>>>}

LiveLogs == [finals |-> liveFinals, calls |-> liveCalls, asr |-> liveAsr]

\* for seg in segments: on_asr for every segment whose stripped text is not empty
RECURSIVE LiveOnAsr(_, _, _, _)
LiveOnAsr(asr, segs, t0, t1) ==
    IF segs = <<>> THEN asr
    ELSE LiveOnAsr(IF Strip(Head(segs)) = <<>> THEN asr
                   ELSE Append(asr, [t0 |-> t0, t1 |-> t1, text |-> Strip(Head(segs))]),
                   Tail(segs), t0, t1)

\* (mutant) the utterance is transcribed however short it is
finalize_without_min_check(logs, parts, t0, reason, at, segs) ==
    LET utter_sec == _duration_from_pcm16(PcmLen(parts))
    IN  [finals |-> Append(logs.finals,
                           [pcm |-> parts, t0 |-> t0, reason |-> reason, at |-> at]),
         calls  |-> Append(logs.calls, [pcm |-> parts, t0 |-> t0]),
         asr    |-> LiveOnAsr(logs.asr, segs, t0, t0 + utter_sec)]

\* _finalize_utterance(utter_pcm16, ..., utter_t0, reason), after chunk number `at`,
\* the transcriber returning segs
_finalize_utterance(logs, parts, t0, reason, at, segs) ==
    LET utter_sec == _duration_from_pcm16(PcmLen(parts))
        fin == Append(logs.finals,
                      [pcm |-> parts, t0 |-> t0, reason |-> reason, at |-> at])
    IN  IF utter_sec < min_utter_sec
        THEN [logs EXCEPT !.finals = fin]
        ELSE [finals |-> fin,
              calls  |-> Append(logs.calls, [pcm |-> parts, t0 |-> t0]),
              asr    |-> LiveOnAsr(logs.asr, segs, t0, t0 + utter_sec)]

InitLive ==
    /\ silence_chunks_to_finalize \in 1..MaxSilenceChunks
    /\ min_utter_sec \in 0..MaxMinUtter
    /\ max_utter_sec \in {<<>>} \cup {<<m>> : m \in 1..MaxMaxUtter}
    /\ chunk_ticks \in 1..MaxChunkTicks
    /\ utter_parts = <<>> /\ utter_t0 = 0 /\ utter_bytes = 0
    /\ in_utterance = FALSE /\ trailing_silence = 0
    /\ livePc = "loop"
    /\ liveChunks = <<>> /\ liveFinals = <<>> /\ liveCalls = <<>> /\ liveAsr = <<>>
    /\ liveRaised = 0

LiveInstallLogs(logs) ==
    /\ liveFinals' = logs.finals /\ liveCalls' = logs.calls /\ liveAsr' = logs.asr

\* (mutant) the finalized utterance stays open and keeps its chunks
LiveBackToIdleKeepsOpen ==
    /\ trailing_silence' = 0
    /\ UNCHANGED <<in_utterance, utter_parts, utter_bytes>>

\* The locals of run() after a finalization inside the loop.
LiveBackToIdle ==
    /\ in_utterance' = FALSE /\ trailing_silence' = 0
    /\ utter_parts' = <<>> /\ utter_bytes' = 0

\* (mutant) a speech chunk does not reset the count of trailing silence
LiveSpeechKeepsSilence(k, segs) ==
    LET fresh == ~in_utterance
        parts == Append(IF fresh THEN <<>> ELSE utter_parts, k)
        bytes == (IF fresh THEN 0 ELSE utter_bytes) + chunk_ticks
        t0    == IF fresh THEN ChunkStart(k) ELSE utter_t0
    IN  /\ utter_t0' = t0
        /\ IF max_utter_sec # <<>> /\ _duration_from_pcm16(bytes) >= max_utter_sec[1]
           THEN /\ LiveInstallLogs(
                       _finalize_utterance(LiveLogs, parts, t0, "max_utter_sec", k, segs))
                /\ LiveBackToIdle
           ELSE /\ in_utterance' = TRUE /\ UNCHANGED trailing_silence
                /\ utter_parts' = parts /\ utter_bytes' = bytes
                /\ UNCHANGED <<liveFinals, liveCalls, liveAsr>>

\* (mutant) the utterance is force-finalized only once it is longer than
\* max_utter_sec
LiveSpeechStrictMax(k, segs) ==
    LET fresh == ~in_utterance
        parts == Append(IF fresh THEN <<>> ELSE utter_parts, k)
        bytes == (IF fresh THEN 0 ELSE utter_bytes) + chunk_ticks
        t0    == IF fresh THEN ChunkStart(k) ELSE utter_t0
    IN  /\ utter_t0' = t0
        /\ IF max_utter_sec # <<>> /\ _duration_from_pcm16(bytes) > max_utter_sec[1]
           THEN /\ LiveInstallLogs(
                       _finalize_utterance(LiveLogs, parts, t0, "max_utter_sec", k, segs))
                /\ LiveBackToIdle
           ELSE /\ in_utterance' = TRUE /\ trailing_silence' = 0
                /\ utter_parts' = parts /\ utter_bytes' = bytes
                /\ UNCHANGED <<liveFinals, liveCalls, liveAsr>>

\* run(), lines 104-131: a speech chunk
LiveSpeech(k, segs) ==
    LET fresh == ~in_utterance
        parts == Append(IF fresh THEN <<>> ELSE utter_parts, k)
        bytes == (IF fresh THEN 0 ELSE utter_bytes) + chunk_ticks
        t0    == IF fresh THEN ChunkStart(k) ELSE utter_t0
    IN  /\ utter_t0' = t0
        /\ IF max_utter_sec # <<>> /\ _duration_from_pcm16(bytes) >= max_utter_sec[1]
           THEN /\ LiveInstallLogs(
                       _finalize_utterance(LiveLogs, parts, t0, "max_utter_sec", k, segs))
                /\ LiveBackToIdle
           ELSE /\ in_utterance' = TRUE /\ trailing_silence' = 0
                /\ utter_parts' = parts /\ utter_bytes' = bytes
                /\ UNCHANGED <<liveFinals, liveCalls, liveAsr>>

\* run(), lines 133-146: a chunk that is not speech
LiveSilence(k, segs) ==
    /\ UNCHANGED utter_t0
    /\ IF ~in_utterance
       THEN UNCHANGED <<in_utterance, trailing_silence, utter_parts, utter_bytes,
                        liveFinals, liveCalls, liveAsr>>
       ELSE IF trailing_silence + 1 >= silence_chunks_to_finalize
       THEN /\ LiveInstallLogs(
                   _finalize_utterance(LiveLogs, utter_parts, utter_t0, "silence", k, segs))
            /\ LiveBackToIdle
       ELSE /\ trailing_silence' = trailing_silence + 1
            /\ UNCHANGED <<in_utterance, utter_parts, utter_bytes,
                           liveFinals, liveCalls, liveAsr>>

\* run(), lines 93-146: one iteration of the loop over chunk_iter
LiveChunk ==
    /\ livePc = "loop"
    /\ Len(liveChunks) < MaxChunks
    /\ \E is_speech \in BOOLEAN, segs \in AsrResults :
          /\ liveChunks' = Append(liveChunks, is_speech)
          /\ IF is_speech THEN LiveSpeech(Len(liveChunks) + 1, segs)
                          ELSE LiveSilence(Len(liveChunks) + 1, segs)
    /\ UNCHANGED <<silence_chunks_to_finalize, min_utter_sec, max_utter_sec, chunk_ticks,
                   livePc, liveRaised, qvars, extvars, sqvars, winvars, segvars, ordvars>>

\* (mutant) run() returns without looking at the open utterance
LiveStreamEndDropsOpen ==
    /\ livePc = "loop"
    /\ livePc' = "end"
    /\ UNCHANGED <<liveFinals, liveCalls, liveAsr>>
    /\ UNCHANGED <<silence_chunks_to_finalize, min_utter_sec, max_utter_sec, chunk_ticks,
                   utter_parts, utter_t0, utter_bytes, in_utterance, trailing_silence,
                   liveChunks, liveRaised, qvars, extvars, sqvars, winvars, segvars, ordvars>>

\* run(), lines 148-155: chunk_iter is exhausted
LiveStreamEnd ==
    /\ livePc = "loop"
    /\ livePc' = "end"
    /\ \E segs \in AsrResults :
          IF in_utterance /\ utter_parts # <<>>
          THEN LiveInstallLogs(
                   _finalize_utterance(LiveLogs, utter_parts, utter_t0, "stream_end",
                                       Len(liveChunks), segs))
          ELSE UNCHANGED <<liveFinals, liveCalls, liveAsr>>
    /\ UNCHANGED <<silence_chunks_to_finalize, min_utter_sec, max_utter_sec, chunk_ticks,
                   utter_parts, utter_t0, utter_bytes, in_utterance, trailing_silence,
                   liveChunks, liveRaised, qvars, extvars, sqvars, winvars, segvars, ordvars>>

\* _finalize_utterance, line 58: the utterance is long enough to be transcribed
LiveTranscribes(parts) == _duration_from_pcm16(PcmLen(parts)) >= min_utter_sec

\* run(), lines 93-146, when transcribe_utterance (line 66) raises: neither
\* _finalize_utterance nor run() has a handler, so run() is left at the call,
\* with the locals it had there.
LiveChunkRaises ==
    /\ livePc = "loop"
    /\ Len(liveChunks) < MaxChunks
    /\ \E is_speech \in BOOLEAN :
          LET k     == Len(liveChunks) + 1
              fresh == ~in_utterance
              parts == IF is_speech THEN Append(IF fresh THEN <<>> ELSE utter_parts, k)
                       ELSE utter_parts
              bytes == IF is_speech THEN (IF fresh THEN 0 ELSE utter_bytes) + chunk_ticks
                       ELSE utter_bytes
              t0    == IF is_speech /\ fresh THEN ChunkStart(k) ELSE utter_t0
          IN  /\ IF is_speech
                 THEN max_utter_sec # <<>>
                      /\ _duration_from_pcm16(bytes) >= max_utter_sec[1]
                 ELSE in_utterance
                      /\ trailing_silence + 1 >= silence_chunks_to_finalize
              /\ LiveTranscribes(parts)
              /\ liveChunks' = Append(liveChunks, is_speech)
              /\ liveFinals' = Append(liveFinals,
                     [pcm |-> parts, t0 |-> t0,
                      reason |-> IF is_speech THEN "max_utter_sec" ELSE "silence",
                      at |-> k])
              /\ liveCalls' = Append(liveCalls, [pcm |-> parts, t0 |-> t0])
              /\ utter_parts' = parts /\ utter_bytes' = bytes /\ utter_t0' = t0
              /\ in_utterance' = TRUE
              /\ trailing_silence' = IF is_speech THEN 0 ELSE trailing_silence + 1
    /\ livePc' = "raised"
    /\ liveRaised' = liveRaised + 1
    /\ UNCHANGED <<silence_chunks_to_finalize, min_utter_sec, max_utter_sec, chunk_ticks,
                   liveAsr, qvars, extvars, sqvars, winvars, segvars, ordvars>>

\* run(), lines 148-155, when transcribe_utterance raises for the utterance
\* that was open at the end of the stream
LiveStreamEndRaises ==
    /\ livePc = "loop"
    /\ in_utterance /\ utter_parts # <<>>
    /\ LiveTranscribes(utter_parts)
    /\ liveFinals' = Append(liveFinals,
           [pcm |-> utter_parts, t0 |-> utter_t0, reason |-> "stream_end",
            at |-> Len(liveChunks)])
    /\ liveCalls' = Append(liveCalls, [pcm |-> utter_parts, t0 |-> utter_t0])
    /\ livePc' = "raised"
    /\ liveRaised' = liveRaised + 1
    /\ UNCHANGED <<silence_chunks_to_finalize, min_utter_sec, max_utter_sec, chunk_ticks,
                   utter_parts, utter_t0, utter_bytes, in_utterance, trailing_silence,
                   liveChunks, liveAsr, qvars, extvars, sqvars, winvars, segvars,
                   ordvars>>

\* ------------------------------------ drop-oldest queues, one caller
\* (mutant) a full queue refuses the new item and still reports a drop
QueuePutDropNewest(q, maxsize, x) ==
    LET r1 == PutNowait(q, maxsize, x)
    IN  IF r1.ok THEN [q |-> r1.q, ret |-> FALSE] ELSE [q |-> q, ret |-> TRUE]

\* _queue_put_drop_oldest run without interruption
_queue_put_drop_oldest(q, maxsize, x) ==
    LET r1 == PutNowait(q, maxsize, x)
    IN  IF r1.ok THEN [q |-> r1.q, ret |-> FALSE]
        ELSE LET g == GetNowait(q)
             IN  IF ~g.ok THEN [q |-> q, ret |-> FALSE]
                 ELSE [q |-> PutNowait(g.q, maxsize, x).q, ret |-> TRUE]

\* SubtitleBus.push run without interruption
SubtitleBus_push(q, maxsize, x) ==
    LET r1 == PutNowait(q, maxsize, x)
    IN  IF r1.ok THEN r1.q
        ELSE LET g == GetNowait(q)
             IN  IF ~g.ok THEN q ELSE PutNowait(g.q, maxsize, x).q

InitSeq ==
    /\ sqCap \in 1..MaxSeqCap
    /\ sq = <<>> /\ sqPushed = <<>> /\ sqDrops = 0 /\ sqOut = <<>>
    /\ sb = <<>> /\ sbOut = <<>>
    /\ sqPhase = "push"

\* The next distinct item goes into both queues.
SeqPush ==
    /\ sqPhase = "push"
    /\ Len(sqPushed) < sqCap + MaxOver
    /\ LET x == Len(sqPushed) + 1
           r == _queue_put_drop_oldest(sq, sqCap, x)
       IN  /\ sq' = r.q
           /\ sqDrops' = IF r.ret THEN sqDrops + 1 ELSE sqDrops
           /\ sb' = SubtitleBus_push(sb, sqCap, x)
           /\ sqPushed' = Append(sqPushed, x)
    /\ UNCHANGED <<sqCap, sqOut, sbOut, sqPhase, qvars, extvars, livevars, ordvars, winvars, segvars>>

\* The producer is finished; the consumer starts.
SeqStartDrain ==
    /\ sqPhase = "push"
    /\ sqPhase' = "drain"
    /\ UNCHANGED <<sq, sqCap, sqPushed, sqDrops, sqOut, sb, sbOut, qvars, extvars, livevars, ordvars, winvars,
                   segvars>>

\* One pop of each queue (SubtitleBus.pop / get_nowait); an empty pop ends the drain.
SeqPop ==
    /\ sqPhase = "drain"
    /\ LET g == GetNowait(sq)
           b == GetNowait(sb)
       IN  /\ sq' = g.q
           /\ sb' = b.q
           /\ sqOut' = IF g.ok THEN Append(sqOut, g.x) ELSE sqOut
           /\ sbOut' = IF b.ok THEN Append(sbOut, b.x) ELSE sbOut
           /\ sqPhase' = IF g.ok \/ b.ok THEN "drain" ELSE "done"
    /\ UNCHANGED <<sqCap, sqPushed, sqDrops, qvars, extvars, livevars, ordvars, winvars, segvars>>

\* ------------------------------------------------- _drain_subtitle_bus
\* SubtitleBus.pop: get_nowait, None when the queue is empty
SubtitleBus_pop(q) == GetNowait(q)

\* the while loop of _drain_subtitle_bus: calls holds the add_line calls made
RECURSIVE DrainLoop(_, _, _, _)
DrainLoop(q, calls, drained, max_items) ==
    IF ~(drained < max_items) THEN [q |-> q, calls |-> calls, ret |-> drained]
    ELSE LET g == SubtitleBus_pop(q)
         IN  IF ~g.ok THEN [q |-> q, calls |-> calls, ret |-> drained]
             ELSE DrainLoop(g.q, Append(calls, g.x), drained + 1, max_items)

\* (mutant) the drain stops one line early
drain_one_short(q, max_items) == DrainLoop(q, <<>>, 0, max_items - 1)

\* _drain_subtitle_bus(bus, overlay, max_items)
_drain_subtitle_bus(q, max_items) == DrainLoop(q, <<>>, 0, max_items)

InitDrain ==
    /\ drBus = <<>> /\ drCap \in 1..MaxDrainCap /\ drPushed = 0
    /\ drOp = "init" /\ drN = 0 /\ drBefore = <<>> /\ drCalls = <<>> /\ drRet = 0

\* bus.push(line) by the producer
DrainPush ==
    /\ drPushed < MaxDrainPushes
    /\ drPushed' = drPushed + 1
    /\ drBus' = SubtitleBus_push(drBus, drCap, LineEN(drPushed + 1))
    /\ drOp' = "push"
    /\ UNCHANGED <<drCap, drN, drBefore, drCalls, drRet>>
    /\ UNCHANGED <<qvars, sqvars, winvars, segvars, ordvars, livevars, faultvars, appvars,
                   restartvars, chunkvars, vadvars, latevars>>

\* _drain_subtitle_bus(bus, overlay, max_items) by the consumer
DrainCall ==
    /\ \E max_items \in 0..MaxDrainArg :
          LET r == _drain_subtitle_bus(drBus, max_items)
          IN  /\ drN' = max_items /\ drBefore' = drBus
              /\ drBus' = r.q /\ drCalls' = r.calls /\ drRet' = r.ret
    /\ drOp' = "drain"
    /\ UNCHANGED <<drCap, drPushed>>
    /\ UNCHANGED <<qvars, sqvars, winvars, segvars, ordvars, livevars, faultvars, appvars,
                   restartvars, chunkvars, vadvars, latevars>>

\* ------------------------------------------------ the application (main.py)
\* RuntimeState
STOPPED  == "stopped"
STARTING == "starting"
RUNNING  == "running"
PAUSED   == "paused"
ERROR    == "error"

\* the states in which a run is going on (main.py, lines 671, 681, 701)
ActiveStates == {RUNNING, PAUSED, STARTING}

\* err_q and ready_q: queue.Queue(maxsize=8)
AppQueueMax == 8

\* the parameters of _run_worker (runtime.py, lines 110-115) and the keyword
\* arguments _worker_entry passes to it (main.py, lines 250-256)
RunWorkerParams   == {"args", "bus", "stop_event", "logger"}
WorkerCallKeywords == {"on_ready", "logger"}

\* Python binds the call only if every keyword names a parameter; otherwise
\* the call raises TypeError before the body of _run_worker is entered.
CallBinds == WorkerCallKeywords \subseteq RunWorkerParams

\* RuntimeStateTracker
set_starting(tr) == [state |-> STARTING, last_error |-> <<>>]
set_running(tr)  == [tr EXCEPT !.state = RUNNING]
\* (mutant) set_paused does not look at the state
set_paused_anywhere(tr) == [tr EXCEPT !.state = PAUSED]

set_paused(tr)   == IF tr.state \in {RUNNING, STARTING}
                    THEN [tr EXCEPT !.state = PAUSED] ELSE tr
set_resumed(tr)  == IF tr.state = PAUSED THEN [tr EXCEPT !.state = RUNNING] ELSE tr
set_stopped(tr)  == [tr EXCEPT !.state = STOPPED]
set_error(tr, detail) == [state |-> ERROR, last_error |-> <<detail>>]

Tracker == [state |-> state, last_error |-> last_error]

InstallTracker(tr) == state' = tr.state /\ last_error' = tr.last_error

NoTickFound == [dead |-> FALSE, requested |-> FALSE, state |-> STOPPED,
                last_error |-> <<>>]

InitApp ==
    /\ state = STOPPED /\ last_error = <<>>
    /\ worker_generation = 0 /\ worker_thread = "none" /\ app_stop_event = "none"
    /\ asr_runtime_ready \in BOOLEAN
    /\ ready_q = <<>> /\ err_q = <<>>
    /\ loading = "off" /\ loading_hide_deadline = FALSE
    /\ appReady = {} /\ tickFound = NoTickFound

\* What no action of the application changes.
AppFixed == <<qvars, sqvars, winvars, segvars, ordvars, livevars, drainvars, faultvars,
              restartvars, chunkvars, vadvars, latevars>>

\* _start_runtime, lines 265-311
AppStart ==
    /\ worker_generation < MaxGeneration
    /\ worker_thread # "alive"
    /\ \E preload_ok \in BOOLEAN :
          IF ~asr_runtime_ready /\ ~preload_ok
          THEN /\ InstallTracker(set_error(Tracker, "preload"))
               /\ UNCHANGED <<worker_generation, worker_thread, app_stop_event,
                              asr_runtime_ready, loading, loading_hide_deadline>>
          ELSE /\ asr_runtime_ready' = TRUE
               /\ InstallTracker(set_running(set_starting(Tracker)))
               /\ app_stop_event' = "clear"
               /\ worker_generation' = worker_generation + 1
               /\ worker_thread' = "alive"
               /\ loading' = "preparing"
               /\ loading_hide_deadline' = FALSE
    /\ UNCHANGED <<ready_q, err_q, appReady, tickFound, AppFixed>>

\* _stop_runtime, lines 313-323
AppStop ==
    /\ app_stop_event' = IF app_stop_event # "none" THEN "set" ELSE app_stop_event
    /\ loading' = "off"
    /\ loading_hide_deadline' = FALSE
    /\ InstallTracker(set_stopped(Tracker))
    /\ UNCHANGED <<worker_generation, worker_thread, asr_runtime_ready, ready_q,
                   err_q, appReady, tickFound, AppFixed>>

\* _toggle_pause, lines 325-335
AppTogglePause ==
    /\ state \in {PAUSED, RUNNING}
    /\ InstallTracker(IF state = PAUSED THEN set_resumed(Tracker)
                      ELSE set_paused(Tracker))
    /\ UNCHANGED <<worker_generation, worker_thread, app_stop_event,
                   asr_runtime_ready, ready_q, err_q, loading,
                   loading_hide_deadline, appReady, tickFound, AppFixed>>

\* _worker_entry, lines 248-263, run by the worker thread: the call of
\* _run_worker does not bind (on_ready is not a parameter), the TypeError is
\* caught by `except Exception`, reported on err_q, and the thread ends.
AppWorkerEntry ==
    /\ worker_thread = "alive"
    /\ ~CallBinds
    /\ err_q' = PutNowait(err_q, AppQueueMax, <<worker_generation, "TypeError">>).q
    /\ worker_thread' = "dead"
    /\ UNCHANGED <<state, last_error, worker_generation, app_stop_event,
                   asr_runtime_ready, ready_q, loading, loading_hide_deadline,
                   appReady, tickFound, AppFixed>>

\* _on_tick, lines 675-685: the ready signals drained from ready_q; the
\* result is whether the "Ready. Waiting for speech" indicator was shown.
RECURSIVE ReadyShown(_, _, _)
ReadyShown(q, gen, st) ==
    IF q = <<>> THEN FALSE
    ELSE (Head(q) = gen /\ st \in ActiveStates) \/ ReadyShown(Tail(q), gen, st)

\* (mutant) a dead worker is always reported as a normal stop
TickWorkerDeadAlwaysStopped(tr, stop) == set_stopped(tr)

\* _on_tick, lines 702-705: the worker thread is dead and the state is active
TickWorkerDead(tr, stop) ==
    IF stop = "set" THEN set_stopped(tr)
    ELSE set_error(tr, "worker stopped unexpectedly")

\* _on_tick, lines 668-741; no line is on the bus, so the drain at line 670
\* returns 0
AppTick ==
    \E expired \in BOOLEAN :
      LET shown    == ReadyShown(ready_q, worker_generation, state)
          deadline == loading_hide_deadline \/ shown
          load1    == IF shown THEN "ready" ELSE loading
          hide     == deadline /\ expired
          load2    == IF hide THEN "off" ELSE load1
          dl2      == deadline /\ ~hide
          found    == worker_thread = "dead" /\ state \in ActiveStates
          tr1      == IF found THEN TickWorkerDead(Tracker, app_stop_event)
                      ELSE Tracker
          e        == GetNowait(err_q)
          crash    == e.ok /\ e.x[1] = worker_generation
          tr2      == IF crash THEN set_error(tr1, e.x[2]) ELSE tr1
      IN  /\ ready_q' = <<>>
          /\ err_q' = e.q
          /\ InstallTracker(tr2)
          /\ loading' = IF crash THEN "off" ELSE load2
          /\ loading_hide_deadline' = IF crash THEN FALSE ELSE dl2
          /\ tickFound' = [dead |-> found, requested |-> app_stop_event = "set",
                           state |-> tr1.state, last_error |-> tr1.last_error]
    /\ UNCHANGED <<worker_generation, worker_thread, app_stop_event,
                   asr_runtime_ready, appReady, AppFixed>>

\* -------------------------- successive runs of _run_worker on the one bus
\* main.py builds one SubtitleBus (line 196) and passes it to every run;
\* _start_runtime gives each run a fresh stop_event, _run_worker a fresh jobs
\* queue.  SubtitleBus.push and _queue_put_drop_oldest are taken without
\* interruption here: their interleavings are the subject of Spec.
Runs == 1..MaxRuns

\* A bus entry: the SubtitleLine, and (for observation only) whether the run
\* that pushed it had been stopped and was no longer the current one.
RsEntry(l, g) == [line |-> l, stale |-> (rsStop[g] /\ g < rsGen)]

InitRestart ==
    /\ rsGen = 0
    /\ rsStop = [g \in Runs |-> FALSE]
    /\ rsP = [g \in Runs |-> "none"]
    /\ rsW = [g \in Runs |-> "none"]
    /\ rsJobs = [g \in Runs |-> <<>>]
    /\ rsItem = [g \in Runs |-> NoItem]
    /\ rsCommits = 0
    /\ rsBus = <<>> /\ rsLines = <<>> /\ rsShown = "none"
    /\ rsTranslated = [g \in Runs |-> 0]
    /\ rsJaPushed = [g \in Runs |-> 0]

RsFixed == <<qvars, sqvars, winvars, segvars, ordvars, livevars, drainvars, faultvars,
             appvars, chunkvars, vadvars, latevars>>

\* _start_runtime, lines 265-311: refused while the worker thread is alive;
\* otherwise a new stop_event, the next generation and a new thread, whose
\* _run_worker starts the translate worker (runtime.py, lines 168-173)
RsStart ==
    /\ rsGen < MaxRuns
    /\ rsGen > 0 => rsP[rsGen] = "done"
    /\ rsGen' = rsGen + 1
    /\ rsP' = [rsP EXCEPT ![rsGen + 1] = "run"]
    /\ rsW' = [rsW EXCEPT ![rsGen + 1] = "check"]
    /\ UNCHANGED <<rsStop, rsJobs, rsItem, rsCommits, rsBus, rsLines, rsShown,
                   rsTranslated, rsJaPushed, RsFixed>>

\* _stop_runtime, lines 313-323: stop_event.set() on the current run's event
RsStopRun ==
    /\ rsGen > 0 /\ ~rsStop[rsGen]
    /\ rsStop' = [rsStop EXCEPT ![rsGen] = TRUE]
    /\ UNCHANGED <<rsGen, rsP, rsW, rsJobs, rsItem, rsCommits, rsBus, rsLines,
                   rsShown, rsTranslated, rsJaPushed, RsFixed>>

\* _on_asr, lines 176-204 (and the flush, lines 249-272), async: the English
\* line is pushed and its job enqueued
RsCommit(g) ==
    /\ rsP[g] = "run"
    /\ rsCommits < RsLines
    /\ LET l == LineEN(rsCommits + 1)
       IN  /\ rsBus' = SubtitleBus_push(rsBus, RsBusCap, RsEntry(l, g))
           /\ rsJobs' = [rsJobs EXCEPT ![g] =
                            _queue_put_drop_oldest(@, JobsCap, JobOf(l)).q]
    /\ rsCommits' = rsCommits + 1
    /\ UNCHANGED <<rsGen, rsStop, rsP, rsW, rsItem, rsLines, rsShown,
                   rsTranslated, rsJaPushed, RsFixed>>

\* _chunks_until_stop returns once the event is set; run() returns and
\* _run_worker ends (lines 224-228, 243-307)
RsPExit(g) ==
    /\ rsP[g] = "run" /\ rsStop[g]
    /\ rsP' = [rsP EXCEPT ![g] = "done"]
    /\ UNCHANGED <<rsGen, rsStop, rsW, rsJobs, rsItem, rsCommits, rsBus, rsLines,
                   rsShown, rsTranslated, rsJaPushed, RsFixed>>

\* _translator_loop, line 143
RsWCheck(g) ==
    /\ rsW[g] = "check"
    /\ rsW' = [rsW EXCEPT ![g] = IF rsStop[g] THEN "exit" ELSE "get"]
    /\ UNCHANGED <<rsGen, rsStop, rsP, rsJobs, rsItem, rsCommits, rsBus, rsLines,
                   rsShown, rsTranslated, rsJaPushed, RsFixed>>

\* _translator_loop, lines 144-147
RsWGet(g) ==
    /\ rsW[g] = "get"
    /\ LET j == GetNowait(rsJobs[g])
       IN  /\ rsJobs' = [rsJobs EXCEPT ![g] = j.q]
           /\ rsItem' = [rsItem EXCEPT ![g] = j.x]
           /\ rsW' = [rsW EXCEPT ![g] = IF j.ok THEN "translate" ELSE "check"]
    /\ UNCHANGED <<rsGen, rsStop, rsP, rsCommits, rsBus, rsLines, rsShown,
                   rsTranslated, rsJaPushed, RsFixed>>

\* _translator_loop, lines 148-153
RsWTranslate(g) ==
    /\ rsW[g] = "translate"
    /\ rsItem' = [rsItem EXCEPT ![g] = LineJA(@)]
    /\ rsTranslated' = [rsTranslated EXCEPT ![g] = @ + 1]
    /\ rsW' = [rsW EXCEPT ![g] = "push"]
    /\ UNCHANGED <<rsGen, rsStop, rsP, rsJobs, rsCommits, rsBus, rsLines, rsShown,
                   rsJaPushed, RsFixed>>

\* (mutant) the worker looks at its stop_event once more and keeps the
\* translation of a stopped run to itself
RsWPushUnlessStopped(g) ==
    /\ rsW[g] = "push"
    /\ IF rsStop[g]
       THEN UNCHANGED <<rsBus, rsJaPushed>>
       ELSE /\ rsBus' = SubtitleBus_push(rsBus, RsBusCap, RsEntry(rsItem[g], g))
            /\ rsJaPushed' = [rsJaPushed EXCEPT ![g] = @ + 1]
    /\ rsItem' = [rsItem EXCEPT ![g] = NoItem]
    /\ rsW' = [rsW EXCEPT ![g] = "check"]
    /\ UNCHANGED <<rsGen, rsStop, rsP, rsJobs, rsCommits, rsLines, rsShown,
                   rsTranslated, RsFixed>>

\* _translator_loop, line 166: bus.push(SubtitleLine(en, ja, t0, t1))
RsWPush(g) ==
    /\ rsW[g] = "push"
    /\ rsBus' = SubtitleBus_push(rsBus, RsBusCap, RsEntry(rsItem[g], g))
    /\ rsJaPushed' = [rsJaPushed EXCEPT ![g] = @ + 1]
    /\ rsItem' = [rsItem EXCEPT ![g] = NoItem]
    /\ rsW' = [rsW EXCEPT ![g] = "check"]
    /\ UNCHANGED <<rsGen, rsStop, rsP, rsJobs, rsCommits, rsLines, rsShown,
                   rsTranslated, RsFixed>>

\* _on_tick, line 670: _drain_subtitle_bus pops a line and hands it to
\* overlay.add_line
RsTick ==
    /\ LET r == SubtitleBus_pop(rsBus)
       IN  /\ r.ok
           /\ rsBus' = r.q
           /\ rsLines' = add_line(rsLines, r.x.line, FALSE, RsWindow)
           /\ rsShown' = IF r.x.line.ja # <<>>
                         THEN (IF r.x.stale THEN "stale" ELSE "fresh")
                         ELSE rsShown
    /\ UNCHANGED <<rsGen, rsStop, rsP, rsW, rsJobs, rsItem, rsCommits,
                   rsTranslated, rsJaPushed, RsFixed>>

\* ------------------------------ utterances_from_audio_chunks (the chunker)
\* Times are ticks; a frame lasts frame_ms ticks (frame_dur).  A frame holds
\* one sample for each channel; sample <<k, c>> is that of channel c in
\* frame k.
min_speech_frames == Max(1, min_speech_ms \div frame_ms)
end_silence_frames == Max(1, end_silence_ms \div frame_ms)

\* frame number k of the stream, as _iter_vad_frames cuts it from its chunk
Frame(k) == [c \in 1..ckChannels |-> <<k, c>>]

\* _to_mono_pcm16: the first channel's sample of every sample group
_to_mono_pcm16(frame, channels) ==
    IF channels <= 1 THEN frame
    ELSE [i \in 1..(Len(frame) \div channels) |-> frame[(i - 1) * channels + 1]]

\* chunk.start_time of the chunk frame k lies in: the chunks follow one another
\* (mic.chunks), each ckChunkFrames frames and ckChunkRem ticks long
ChunkOfFrame(k) == (k - 1) \div ckChunkFrames
ChunkStartTime(k) == ChunkOfFrame(k) * (ckChunkFrames * frame_ms + ckChunkRem)
FirstInChunk(k) == (k - 1) % ckChunkFrames = 0

\* b"".join(parts)
RECURSIVE JoinBytes(_)
JoinBytes(parts) == IF parts = <<>> THEN <<>> ELSE Head(parts) \o JoinBytes(Tail(parts))

ChunkerLocals == [in_utt |-> in_utt, speech_frames |-> speech_frames,
                  silence_run |-> silence_run, parts |-> utter_pcm_parts,
                  t0 |-> utt_t0, t1 |-> utt_t1]

\* (mutant) the minimum of speech frames is not looked at
emit_without_min_check(st) ==
    IF ~st.in_utt THEN [st |-> st, out |-> <<>>]
    ELSE LET idle == [st EXCEPT !.in_utt = FALSE, !.silence_run = 0,
                                !.speech_frames = 0, !.parts = <<>>]
         IN  IF st.parts = <<>>
             THEN [st |-> idle, out |-> <<>>]
             ELSE [st |-> idle,
                   out |-> <<[pcm16 |-> JoinBytes(st.parts), channels |-> 1,
                              start_time |-> st.t0,
                              duration |-> Max(0, st.t1 - st.t0)]>>]

\* maybe_emit
maybe_emit(st) ==
    IF ~st.in_utt THEN [st |-> st, out |-> <<>>]
    ELSE LET idle == [st EXCEPT !.in_utt = FALSE, !.silence_run = 0,
                                !.speech_frames = 0, !.parts = <<>>]
         IN  IF st.speech_frames < min_speech_frames \/ st.parts = <<>>
             THEN [st |-> idle, out |-> <<>>]
             ELSE [st |-> idle,
                   out |-> <<[pcm16 |-> JoinBytes(st.parts), channels |-> 1,
                              start_time |-> st.t0,
                              duration |-> Max(0, st.t1 - st.t0)]>>]

\* (mutant) a speech frame does not reset the run of trailing silence
FrameStepKeepsSilenceRun(st, k, ft, is_speech) ==
    LET mono == _to_mono_pcm16(Frame(k), ckChannels)
    IN  IF is_speech
        THEN LET s0 == IF ~st.in_utt
                       THEN [st EXCEPT !.in_utt = TRUE, !.t0 = ft, !.parts = <<>>,
                                       !.speech_frames = 0, !.silence_run = 0]
                       ELSE st
             IN  [st |-> [s0 EXCEPT !.speech_frames = @ + 1,
                                    !.parts = Append(@, mono), !.t1 = ft + frame_ms],
                  out |-> <<>>, final |-> FALSE]
        ELSE IF st.in_utt
        THEN LET s1 == [st EXCEPT !.silence_run = @ + 1, !.parts = Append(@, mono),
                                  !.t1 = ft + frame_ms]
             IN  IF s1.silence_run >= end_silence_frames
                 THEN LET r == maybe_emit(s1)
                      IN  [st |-> r.st, out |-> r.out, final |-> TRUE]
                 ELSE [st |-> s1, out |-> <<>>, final |-> FALSE]
        ELSE [st |-> st, out |-> <<>>, final |-> FALSE]

\* utterances_from_audio_chunks, lines 92-112: one frame, at time ft
FrameStep(st, k, ft, is_speech) ==
    LET mono == _to_mono_pcm16(Frame(k), ckChannels)
    IN  IF is_speech
        THEN LET s0 == IF ~st.in_utt
                       THEN [st EXCEPT !.in_utt = TRUE, !.t0 = ft, !.parts = <<>>,
                                       !.speech_frames = 0, !.silence_run = 0]
                       ELSE st
             IN  [st |-> [s0 EXCEPT !.speech_frames = @ + 1, !.silence_run = 0,
                                    !.parts = Append(@, mono), !.t1 = ft + frame_ms],
                  out |-> <<>>, final |-> FALSE]
        ELSE IF st.in_utt
        THEN LET s1 == [st EXCEPT !.silence_run = @ + 1, !.parts = Append(@, mono),
                                  !.t1 = ft + frame_ms]
             IN  IF s1.silence_run >= end_silence_frames
                 THEN LET r == maybe_emit(s1)
                      IN  [st |-> r.st, out |-> r.out, final |-> TRUE]
                 ELSE [st |-> s1, out |-> <<>>, final |-> FALSE]
        ELSE [st |-> st, out |-> <<>>, final |-> FALSE]

InstallChunkerLocals(st) ==
    /\ in_utt' = st.in_utt /\ speech_frames' = st.speech_frames
    /\ silence_run' = st.silence_run /\ utter_pcm_parts' = st.parts
    /\ utt_t0' = st.t0 /\ utt_t1' = st.t1

InitChunker ==
    /\ frame_ms \in 1..MaxFrameMs
    /\ min_speech_ms \in 0..MaxSpeechMs
    /\ end_silence_ms \in 0..MaxSpeechMs
    /\ ckChannels \in 1..MaxChannels
    /\ ckChunkFrames \in 1..MaxChunkFrames
    /\ ckChunkRem \in 0..MaxChunkRem
    /\ ckChunkRem < frame_ms
    /\ in_utt = FALSE /\ speech_frames = 0 /\ silence_run = 0
    /\ utter_pcm_parts = <<>> /\ utt_t0 = 0 /\ utt_t1 = 0 /\ frame_time = 0
    /\ ckPc = "loop"
    /\ ckFrames = <<>> /\ ckOut = <<>> /\ ckFinals = <<>>

ChunkerFixed == <<frame_ms, min_speech_ms, end_silence_ms, ckChannels, ckChunkFrames,
                  ckChunkRem, qvars, sqvars, winvars, segvars, ordvars, livevars,
                  drainvars, faultvars, appvars, restartvars, vadvars, latevars>>

\* the loop body for the next frame; frame_time starts at chunk.start_time
\* with every chunk (line 89) and advances by frame_dur (line 113)
ChunkerFrame ==
    /\ ckPc = "loop"
    /\ Len(ckFrames) < MaxFrames
    /\ \E is_speech \in BOOLEAN :
          LET k  == Len(ckFrames) + 1
              ft == IF FirstInChunk(k) THEN ChunkStartTime(k) ELSE frame_time
              r  == FrameStep(ChunkerLocals, k, ft, is_speech)
          IN  /\ ckFrames' = Append(ckFrames, is_speech)
              /\ InstallChunkerLocals(r.st)
              /\ frame_time' = ft + frame_ms
              /\ ckOut' = ckOut \o r.out
              /\ ckFinals' = IF r.final
                             THEN Append(ckFinals, [at |-> k, reason |-> "silence",
                                                    emitted |-> r.out # <<>>])
                             ELSE ckFinals
    /\ UNCHANGED <<ckPc, ChunkerFixed>>

\* lines 115-117: the chunks are exhausted
ChunkerStreamEnd ==
    /\ ckPc = "loop"
    /\ ckPc' = "end"
    /\ LET r == maybe_emit(ChunkerLocals)
       IN  /\ InstallChunkerLocals(r.st)
           /\ ckOut' = ckOut \o r.out
           /\ ckFinals' = IF in_utt
                          THEN Append(ckFinals, [at |-> Len(ckFrames),
                                                 reason |-> "stream_end",
                                                 emitted |-> r.out # <<>>])
                          ELSE ckFinals
    /\ UNCHANGED <<frame_time, ckFrames, ChunkerFixed>>

\* ---------------------------------------------------------- EnergyVAD
\* A buffer is the sequence of its int16 samples; thresholds are whole numbers.
RECURSIVE SumSq(_)
SumSq(samples) ==
    IF samples = <<>> THEN 0 ELSE Head(samples) * Head(samples) + SumSq(Tail(samples))

\* the whole part of the square root
Isqrt(x) == CHOOSE r \in 0..x : r * r <= x /\ x < (r + 1) * (r + 1)

\* pcm16_rms: sqrt(sum_sq / len(samples)), 0.0 for an empty buffer; the model
\* keeps its whole part, which compares with a whole threshold as the root does
pcm16_rms(samples) ==
    IF samples = <<>> THEN 0 ELSE Isqrt(SumSq(samples) \div Len(samples))

\* (mutant) the comparison is strict
is_speech_strict(samples, threshold) == pcm16_rms(samples) > threshold

\* EnergyVAD.is_speech
is_speech(samples, threshold) == pcm16_rms(samples) >= threshold

Samples == (0 - MaxAmp)..MaxAmp

\* every buffer of at most n samples
Buffers(n) == UNION {[1..k -> Samples] : k \in 0..n}

InitVad ==
    /\ rms_threshold = 0 /\ vadPc = "new" /\ vadBuf = <<>> /\ vadResult = FALSE

VadFixed == <<qvars, sqvars, winvars, segvars, ordvars, livevars, drainvars, faultvars,
              appvars, restartvars, chunkvars, latevars>>

\* EnergyVAD.__init__: a negative threshold raises ValueError
VadConstruct ==
    /\ vadPc = "new"
    /\ \E th \in (0 - 1)..MaxThreshold :
          IF th < 0
          THEN vadPc' = "invalid" /\ UNCHANGED rms_threshold
          ELSE vadPc' = "ready" /\ rms_threshold' = th
    /\ UNCHANGED <<vadBuf, vadResult, VadFixed>>

\* EnergyVAD.is_speech(pcm16)
VadIsSpeech ==
    /\ vadPc = "ready"
    /\ \E b \in Buffers(MaxBuf) :
          /\ vadBuf' = b
          /\ vadResult' = is_speech(b, rms_threshold)
    /\ vadPc' = "done"
    /\ UNCHANGED <<rms_threshold, VadFixed>>

\* ------------------------------------------- the text filters of runtime.py
\* A text is the sequence of its characters; the space is the only whitespace.
TextChars == {" ", "a", "A", "b"}

\* every text of at most n characters
Texts(n) == UNION {[1..k -> TextChars] : k \in 0..n}

\* str.lower()
Lower(c) == IF c = "A" THEN "a" ELSE c
LowerWord(w) == [i \in 1..Len(w) |-> Lower(w[i])]

\* where the first word of a text that starts with one ends
WordEnd(t) ==
    IF \E i \in 1..Len(t) : t[i] = " "
    THEN CHOOSE i \in 1..Len(t) : t[i] = " " /\ \A j \in 1..(i - 1) : t[j] # " "
    ELSE Len(t) + 1

\* str.split(): the words between runs of whitespace
RECURSIVE Split(_)
Split(s) ==
    LET t == LStrip(s)
    IN  IF t = <<>> THEN <<>>
        ELSE <<SubSeq(t, 1, WordEnd(t) - 1)>> \o Split(SubSeq(t, WordEnd(t), Len(t)))

\* the default and the only value of max_repeat in use
max_repeat == 2

\* lines 43-54: the loop over the words; prev is <<>> for None
RECURSIVE DedupeLoop(_, _, _, _, _)
DedupeLoop(words, prev, run, out, maxrep) ==
    IF words = <<>> THEN out
    ELSE LET w    == Head(words)
             wl   == LowerWord(w)
             run2 == IF wl = prev THEN run + 1 ELSE 1
         IN  DedupeLoop(Tail(words), wl, run2,
                        IF run2 <= maxrep THEN Append(out, w) ELSE out, maxrep)

\* (mutant) one repeat fewer is kept
dedupe_one_fewer(text, maxrep) ==
    LET words == Split(text)
    IN  IF words = <<>> THEN <<>>
        ELSE Strip(Join(DedupeLoop(words, <<>>, 0, <<>>, maxrep - 1)))

_dedupe_repeated_words(text, maxrep) ==
    LET words == Split(text)
    IN  IF words = <<>> THEN <<>>
        ELSE Strip(Join(DedupeLoop(words, <<>>, 0, <<>>, maxrep)))

InitDedupe == ddText \in Texts(MaxTextLen) /\ ddOut = <<>> /\ ddPc = "new"

DedupeFixed == <<qvars, sqvars, winvars, segvars, ordvars, livevars, drainvars,
                 faultvars, appvars, restartvars, chunkvars, vadvars, flvars, tkvars, svvars,
                 sxvars, shvars,
    wsvars,
    cfgvars,
    pzvars>>

\* _dedupe_repeated_words(text, max_repeat=2)
DedupeCall ==
    /\ ddPc = "new"
    /\ ddOut' = _dedupe_repeated_words(ddText, max_repeat)
    /\ ddPc' = "done"
    /\ UNCHANGED <<ddText, DedupeFixed>>

\* _PUNCT_END of runtime.py: . ! or ? at the end of the text
PunctEndChars == {".", "!", "?"}
PunctEnd(t) == t # <<>> /\ t[Len(t)] \in PunctEndChars

_is_low_value_fragment(text) ==
    LET t == Strip(text)
    IN  IF t = <<>> THEN TRUE
        ELSE IF Len(Split(t)) = 1 /\ ~PunctEnd(t) THEN TRUE
        ELSE IF Len(t) <= 2 THEN TRUE
        ELSE FALSE

\* _iter_committed_lines(segmenter, t0, t1, text): the segmenter after it, the
\* lines it yields, and whether it called segmenter.push
_iter_committed_lines(seg, t0, t1, text) ==
    LET en == _dedupe_repeated_words(Strip(text), max_repeat)
    IN  IF _is_low_value_fragment(en)
        THEN [seg |-> seg, out |-> <<>>, en |-> en, pushed |-> FALSE]
        ELSE LET r == SubtitleSegmenter_push(seg, en, t0, t1)
             IN  [seg |-> r.seg, out |-> r.out, en |-> en, pushed |-> TRUE]

\* The fragments recognized: empty, blank, one or two characters, one word
\* with and without . or U+3002 at its end, two words, a stutter, padded.
FragTexts ==
    { <<>>, <<" ">>, <<"a">>, <<"a", ".">>, <<"a", "a", "a">>, <<"a", "a", ".">>,
      <<"a", "a", "U+3002">>, <<"a", " ", "b">>, <<"a", " ", "A", " ", "a">>,
      <<" ", "b", " ", "a", " ">> }

InitFilter ==
    /\ flOp = "init" /\ flEn = <<>> /\ flPushed = FALSE /\ flYield = <<>>
    /\ flBefore = SegReset

FilterFixed == <<qvars, sqvars, winvars, ordvars, livevars, drainvars, faultvars,
                 appvars, restartvars, chunkvars, vadvars, ddvars, tkvars, svvars, sxvars,
                 shvars, segOut, segOp, segPending, segBefore, segLast, segOrdered,
    wsvars,
    cfgvars,
    pzvars>>

\* _iter_committed_lines(segmenter, t0, t1, text) with any fragment
FilterCall ==
    /\ flOp \in {"init", "call"}
    /\ \E text \in FragTexts, t0 \in 0..MaxT, t1 \in 0..MaxT :
          LET r == _iter_committed_lines(SegState, t0, t1, text)
          IN  /\ SegInstall(r.seg)
              /\ flEn' = r.en
              /\ flPushed' = r.pushed
              /\ flYield' = r.out
    /\ flBefore' = SegState
    /\ flOp' = "call"
    /\ UNCHANGED FilterFixed

\* ------------------------------------------- RuntimeStateTracker by itself
\* A tracker whose methods are called in any order.
ErrorDetails == {"boom", "crash", "lost"}

InitTracker == tkOp = "init" /\ tkPrev = [state |-> STOPPED, last_error |-> <<>>]

TrackerFixed == <<qvars, sqvars, winvars, segvars, ordvars, livevars, drainvars,
                  faultvars, restartvars, chunkvars, vadvars, ddvars, flvars, svvars, sxvars,
                  shvars, worker_generation, worker_thread, app_stop_event,
                  asr_runtime_ready, ready_q, err_q, loading,
                  loading_hide_deadline, appReady, tickFound,
    wsvars,
    cfgvars,
    pzvars>>

TkCalled(op, tr) ==
    /\ tkOp # "off"
    /\ InstallTracker(tr)
    /\ tkOp' = op
    /\ tkPrev' = Tracker
    /\ UNCHANGED TrackerFixed

TkSetStarting == TkCalled("set_starting", set_starting(Tracker))
TkSetRunning  == TkCalled("set_running", set_running(Tracker))
TkSetPaused   == TkCalled("set_paused", set_paused(Tracker))
TkSetResumed  == TkCalled("set_resumed", set_resumed(Tracker))
TkSetStopped  == TkCalled("set_stopped", set_stopped(Tracker))
TkSetError    == \E detail \in ErrorDetails : TkCalled("set_error", set_error(Tracker, detail))

\* ------------------------------------------- build_live_overlay_services
\* the choices of the language lock (settings_qt.py, lines 324-325) and some
\* model sizes
LanguageLocks == {"auto", "en"}
ModelSizes == {"tiny", "base", "small"}

\* the floor of hard_max_chars, line 34
HardMaxFloor == 20

\* nothing was constructed
NoServices == [language |-> <<>>, model_size |-> "", gap_sec |-> 0, hard_max_chars |-> 0]

\* args before any is chosen
DefaultArgs == [language_lock |-> "auto", model |-> "tiny", gap_sec |-> 0,
                hard_max_chars |-> HardMaxFloor]

InitServices ==
    /\ svArgs \in [language_lock : LanguageLocks, model : ModelSizes,
                   gap_sec : (0 - 1)..MaxGapArg,
                   hard_max_chars : (HardMaxFloor - 2)..MaxHardArg]
    /\ svPc = "new" /\ svBuilt = NoServices

ServicesFixed == <<qvars, sqvars, winvars, segvars, ordvars, livevars, drainvars,
                   faultvars, appvars, restartvars, chunkvars, vadvars, ddvars,
                   flvars, tkvars, sxvars, shvars,
    wsvars,
    cfgvars,
    pzvars>>

\* build_live_overlay_services(args): the arguments of the constructors of
\* the transcriber (line 30) and of the segmenter (lines 32-35)
build_live_overlay_services(args) ==
    [language       |-> <<"en">>,
     model_size     |-> args.model,
     gap_sec        |-> Max(0, args.gap_sec),
     hard_max_chars |-> Max(HardMaxFloor, args.hard_max_chars)]

ServicesBuild ==
    /\ svPc = "new"
    /\ svBuilt' = build_live_overlay_services(svArgs)
    /\ svPc' = "built"
    /\ UNCHANGED <<svArgs, ServicesFixed>>

\* ------------------------------- SubtitleSegmenter: each call observed
\* no push yet
NoFrag == [text |-> <<>>, t0 |-> 0, t1 |-> 0]

InitSegStep ==
    /\ sxOp = "init" /\ sxBefore = SegReset /\ sxFrag = NoFrag /\ sxOut = <<>>
    /\ sxSeen = <<>> /\ sxPrevEnd = <<>>

SegStepFixed == <<qvars, sqvars, winvars, ordvars, livevars, drainvars, faultvars,
                  appvars, restartvars, chunkvars, vadvars, ddvars, flvars, tkvars,
                  svvars, shvars,
                  segOut, segOp, segPending, segBefore, segLast, segOrdered,
    wsvars,
    cfgvars,
    pzvars>>

\* segmenter.push(text, t0, t1) with any text and any timestamps
SxPush ==
    /\ sxOp # "off"
    /\ \E text \in SegTexts, t0 \in 0..MaxT, t1 \in 0..MaxT :
          LET r == SubtitleSegmenter_push(SegState, text, t0, t1)
          IN  /\ SegInstall(r.seg)
              /\ sxOut' = r.out
              /\ sxFrag' = [text |-> Strip(text), t0 |-> t0, t1 |-> t1]
              /\ sxSeen' = IF Strip(text) = <<>> THEN sxSeen ELSE <<t1>>
    /\ sxOp' = "push"
    /\ sxBefore' = SegState
    /\ sxPrevEnd' = sxSeen
    /\ UNCHANGED SegStepFixed

\* segmenter.flush()
SxFlush ==
    /\ sxOp # "off"
    /\ LET r == SubtitleSegmenter_flush(SegState)
       IN  SegInstall(r.seg) /\ sxOut' = r.out
    /\ sxOp' = "flush"
    /\ sxBefore' = SegState
    /\ sxPrevEnd' = sxSeen
    /\ UNCHANGED <<sxFrag, sxSeen, SegStepFixed>>

\* ---------------- SubtitleSegmenter: its text from first push to final flush
InitSegText == shOp = "init" /\ shPushed = <<>> /\ shEmitted = <<>>

SegTextFixed == <<qvars, sqvars, winvars, ordvars, livevars, drainvars, faultvars,
                  appvars, restartvars, chunkvars, vadvars, ddvars, flvars, tkvars,
                  svvars, sxvars,
                  segOut, segOp, segPending, segBefore, segLast, segOrdered,
    wsvars,
    cfgvars,
    pzvars>>

\* the texts of the lines a call returned
TextsOf(out) == [i \in 1..Len(out) |-> out[i].text]

\* segmenter.push(text, t0, t1) with any text and any timestamps
ShPush ==
    /\ shOp # "off"
    /\ Len(shPushed) < MaxSegPushes
    /\ \E text \in SegTexts, t0 \in 0..MaxT, t1 \in 0..MaxT :
          LET r == SubtitleSegmenter_push(SegState, text, t0, t1)
          IN  /\ SegInstall(r.seg)
              /\ shEmitted' = shEmitted \o TextsOf(r.out)
              /\ shPushed' = IF Strip(text) = <<>> THEN shPushed
                             ELSE Append(shPushed, Strip(text))
    /\ shOp' = "push"
    /\ UNCHANGED SegTextFixed

\* segmenter.flush()
ShFlush ==
    /\ shOp # "off"
    /\ LET r == SubtitleSegmenter_flush(SegState)
       IN  SegInstall(r.seg) /\ shEmitted' = shEmitted \o TextsOf(r.out)
    /\ shOp' = "flush"
    /\ UNCHANGED <<shPushed, SegTextFixed>>

\* ------------------------------- the translate worker and its stop_event
\* One run of _run_worker with async_translate: the runner thread commits
\* lines and puts their jobs, the daemon thread runs _translator_loop, and
\* stop_event is set by the application or by _run_worker's finally block.
\* A job is the number of the line it translates; wsItem = 0 is "no job".
InitWorkerStop ==
    /\ wsStop = FALSE /\ wsPc = "check" /\ wsJobs = <<>> /\ wsItem = 0
    /\ wsMade = 0 /\ wsAfterStop = 0

WsFixed == <<qvars, sqvars, winvars, segvars, ordvars, livevars, drainvars,
             faultvars, appvars, restartvars, chunkvars, vadvars, ddvars, flvars,
             tkvars, svvars, sxvars, shvars,
    cfgvars,
    pzvars>>

\* _on_asr / the finally block of _run_worker: _queue_put_drop_oldest(jobs, job);
\* the finally block still puts the flushed lines' jobs after a stop
WsEnqueue ==
    /\ wsMade < MaxStopJobs
    /\ wsMade' = wsMade + 1
    /\ wsJobs' = _queue_put_drop_oldest(wsJobs, JobsCap, wsMade + 1).q
    /\ UNCHANGED <<wsStop, wsPc, wsItem, wsAfterStop, WsFixed>>

\* stop_event.set(): _stop_runtime of the application, or line 292
WsStop ==
    /\ ~wsStop
    /\ wsStop' = TRUE
    /\ UNCHANGED <<wsPc, wsJobs, wsItem, wsMade, wsAfterStop, WsFixed>>

\* _translator_loop, line 143: while not stop_event.is_set()
WsCheck ==
    /\ wsPc = "check"
    /\ wsPc' = IF wsStop THEN "exit" ELSE "get"
    /\ UNCHANGED <<wsStop, wsJobs, wsItem, wsMade, wsAfterStop, WsFixed>>

\* (mutant) jobs.get() without the timeout: the call returns only with a job
WsGetBlocking ==
    /\ wsPc = "get"
    /\ wsJobs # <<>>
    /\ LET j == GetNowait(wsJobs)
       IN  /\ wsJobs' = j.q
           /\ wsItem' = j.x
           /\ wsPc' = "translate"
    /\ UNCHANGED <<wsStop, wsMade, wsAfterStop, WsFixed>>

\* _translator_loop, lines 144-147: jobs.get(timeout=0.2) returns the oldest
\* job, or raises queue.Empty when the timeout passes and the loop continues
WsGet ==
    /\ wsPc = "get"
    /\ LET j == GetNowait(wsJobs)
       IN  /\ wsJobs' = j.q
           /\ wsItem' = IF j.ok THEN j.x ELSE wsItem
           /\ wsPc' = IF j.ok THEN "translate" ELSE "check"
    /\ UNCHANGED <<wsStop, wsMade, wsAfterStop, WsFixed>>

\* _translator_loop, lines 148-153: _translate_text returns, or the
\* translator raises and the exception ends the thread
WsTranslate ==
    /\ wsPc = "translate"
    /\ \E raised \in BOOLEAN : wsPc' = IF raised THEN "exit" ELSE "push"
    /\ UNCHANGED <<wsStop, wsJobs, wsItem, wsMade, wsAfterStop, WsFixed>>

\* _translator_loop, line 166: bus.push never blocks (SubtitleBus.push drops
\* the oldest line of a full bus); wsAfterStop counts the jobs finished after
\* the stop signal
WsPush ==
    /\ wsPc = "push"
    /\ wsPc' = "check"
    /\ wsItem' = 0
    /\ wsAfterStop' = IF wsStop THEN wsAfterStop + 1 ELSE wsAfterStop
    /\ UNCHANGED <<wsStop, wsJobs, wsMade, WsFixed>>

\* --------------------------------------- the settings dialog (main.py)
\* args.model stands for the settings whose change restarts the runtime
\* (restart_keys, lines 441-458), args.ui_language for those that do not.
UiLanguages == {"en", "ja"}

\* what the last call of _open_settings found and left (for observation)
NoSettingsFound == [called |-> FALSE, restart |-> FALSE, alive |-> FALSE,
                    gen0 |-> 0, state1 |-> STOPPED, gen1 |-> 0,
                    thread1 |-> "none", event1 |-> "none"]

InitSettings ==
    /\ args_model \in ModelSizes /\ args_ui_language \in UiLanguages
    /\ settingsFound = NoSettingsFound

SettingsFixed == <<qvars, sqvars, winvars, segvars, ordvars, livevars, drainvars,
                   faultvars, restartvars, chunkvars, vadvars, ddvars, flvars,
                   tkvars, svvars, sxvars, shvars, wsvars,
    pzvars>>

\* _stop_runtime, lines 313-323, as a function of the application's state
StopRuntime(a) ==
    [a EXCEPT !.stop_event = IF @ # "none" THEN "set" ELSE @,
              !.loading = "off",
              !.loading_hide_deadline = FALSE,
              !.tr = set_stopped(@)]

\* _start_runtime, lines 265-311, as a function of the application's state:
\* nothing happens while the worker thread is alive (lines 268-269)
StartRuntime(a, preload_ok) ==
    IF a.thread = "alive" THEN a
    ELSE IF ~a.asr_runtime_ready /\ ~preload_ok
    THEN [a EXCEPT !.tr = set_error(@, "preload")]
    ELSE [a EXCEPT !.asr_runtime_ready = TRUE,
                   !.tr = set_running(set_starting(@)),
                   !.stop_event = "clear",
                   !.generation = @ + 1,
                   !.thread = "alive",
                   !.loading = "preparing",
                   !.loading_hide_deadline = FALSE]

AppState == [tr |-> Tracker, generation |-> worker_generation,
             thread |-> worker_thread, stop_event |-> app_stop_event,
             asr_runtime_ready |-> asr_runtime_ready, loading |-> loading,
             loading_hide_deadline |-> loading_hide_deadline]

\* _open_settings, lines 395-465, the dialog accepted with valid values of
\* which one at least differs: the values are stored in args, and a changed
\* restart key in an active state calls _stop_runtime and _start_runtime
AppOpenSettings ==
    /\ worker_generation < MaxGeneration
    /\ \E model \in ModelSizes, ui \in UiLanguages, preload_ok \in BOOLEAN :
          /\ <<model, ui>> # <<args_model, args_ui_language>>
          /\ args_model' = model
          /\ args_ui_language' = ui
          /\ LET restart == model # args_model /\ state \in ActiveStates
                 a1 == IF restart
                       THEN StartRuntime(StopRuntime(AppState), preload_ok)
                       ELSE AppState
             IN  /\ InstallTracker(a1.tr)
                 /\ worker_generation' = a1.generation
                 /\ worker_thread' = a1.thread
                 /\ app_stop_event' = a1.stop_event
                 /\ asr_runtime_ready' = a1.asr_runtime_ready
                 /\ loading' = a1.loading
                 /\ loading_hide_deadline' = a1.loading_hide_deadline
                 /\ settingsFound' = [called |-> TRUE, restart |-> restart,
                                      alive |-> worker_thread = "alive",
                                      gen0 |-> worker_generation,
                                      state1 |-> a1.tr.state,
                                      gen1 |-> a1.generation,
                                      thread1 |-> a1.thread,
                                      event1 |-> a1.stop_event]
    /\ UNCHANGED <<ready_q, err_q, appReady, tickFound, SettingsFixed>>

\* ------------------------------- the paused overlay and the bus (main.py)
\* A running runtime: the pipeline pushes each committed line to the bus, the
\* translate worker pushes its translation later, the timer drains the bus
\* into the overlay, and the user pauses and resumes.
NoTick == [called |-> FALSE, paused |-> FALSE, n |-> 0, bus0 |-> <<>>,
           bus1 |-> <<>>, lines0 |-> <<>>, lines1 |-> <<>>]

InitPause ==
    /\ pzState = RUNNING /\ pzPaused = FALSE
    /\ pzBus = <<>> /\ pzLines = <<>> /\ pzJobs = <<>> /\ pzMade = 0
    /\ pzLost = {} /\ pzTick = NoTick

PauseFixed == <<qvars, sqvars, winvars, segvars, ordvars, livevars, drainvars,
                faultvars, appvars, restartvars, chunkvars, vadvars, ddvars, flvars,
                tkvars, svvars, sxvars, shvars, wsvars, cfgvars>>

\* the add_line calls of one drain, in order
RECURSIVE AddLines(_, _, _, _)
AddLines(ls, calls, paused, maxl) ==
    IF calls = <<>> THEN ls
    ELSE AddLines(add_line(ls, Head(calls), paused, maxl), Tail(calls), paused, maxl)

\* _on_asr, lines 181-182: the English line is pushed and its job enqueued
PzCommit ==
    /\ pzMade < RsLines
    /\ pzMade' = pzMade + 1
    /\ pzBus' = SubtitleBus_push(pzBus, RsBusCap, LineEN(pzMade + 1))
    /\ pzJobs' = Append(pzJobs, LineEN(pzMade + 1))
    /\ UNCHANGED <<pzState, pzPaused, pzLines, pzLost, pzTick, PauseFixed>>

\* _translator_loop, lines 145-166: the translation of the oldest job is pushed
PzTranslated ==
    /\ pzJobs # <<>>
    /\ pzBus' = SubtitleBus_push(pzBus, RsBusCap, LineJA(Head(pzJobs)))
    /\ pzJobs' = Tail(pzJobs)
    /\ UNCHANGED <<pzState, pzPaused, pzLines, pzMade, pzLost, pzTick, PauseFixed>>

\* _toggle_pause, lines 325-334
PzTogglePause ==
    /\ pzState \in {PAUSED, RUNNING}
    /\ pzPaused' = (pzState = RUNNING)
    /\ pzState' = IF pzState = PAUSED
                  THEN set_resumed([state |-> pzState, last_error |-> <<>>]).state
                  ELSE set_paused([state |-> pzState, last_error |-> <<>>]).state
    /\ UNCHANGED <<pzBus, pzLines, pzJobs, pzMade, pzLost, pzTick, PauseFixed>>

\* keyPressEvent of the overlay, lines 337-339: the pause hotkey flips _paused
\* and leaves the tracker alone
PzHotkeyPause ==
    /\ pzPaused' = ~pzPaused
    /\ UNCHANGED <<pzState, pzBus, pzLines, pzJobs, pzMade, pzLost, pzTick, PauseFixed>>

\* _on_tick, line 670: _drain_subtitle_bus(bus, overlay, max(1, max_updates_per_tick))
PzTick ==
    /\ \E max_items \in 1..MaxDrainArg :
          LET r  == _drain_subtitle_bus(pzBus, max_items)
              l1 == AddLines(pzLines, r.calls, pzPaused, RsWindow)
          IN  /\ pzBus' = r.q
              /\ pzLines' = l1
              /\ pzLost' = IF pzPaused
                           THEN pzLost \cup {r.calls[i] : i \in 1..Len(r.calls)}
                           ELSE pzLost
              /\ pzTick' = [called |-> TRUE, paused |-> pzPaused, n |-> max_items,
                            bus0 |-> pzBus, bus1 |-> r.q,
                            lines0 |-> pzLines, lines1 |-> l1]
    /\ UNCHANGED <<pzState, pzPaused, pzJobs, pzMade, PauseFixed>>

\* ------------------------------------------------- components at rest
IdleSeq ==
    /\ sq = <<>> /\ sqCap = 1 /\ sqPushed = <<>> /\ sqDrops = 0
    /\ sqOut = <<>> /\ sqPhase = "push" /\ sb = <<>> /\ sbOut = <<>>

IdleWin ==
    /\ win = <<>> /\ winMax = 1 /\ winPrev = <<>> /\ winNew = NoLine
    /\ winOp = "init"

IdleSeg == InitSeg

IdleOrd == InitOrd

\* No LiveUtteranceTranscriber was built.
IdleLive ==
    /\ silence_chunks_to_finalize = 1 /\ min_utter_sec = 0 /\ max_utter_sec = <<>>
    /\ chunk_ticks = 1
    /\ utter_parts = <<>> /\ utter_t0 = 0 /\ utter_bytes = 0
    /\ in_utterance = FALSE /\ trailing_silence = 0
    /\ livePc = "off"
    /\ liveChunks = <<>> /\ liveFinals = <<>> /\ liveCalls = <<>> /\ liveAsr = <<>>
    /\ liveRaised = 0

\* The components declared further down, at rest.
IdleDrain ==
    /\ drBus = <<>> /\ drCap = 1 /\ drPushed = 0
    /\ drOp = "init" /\ drN = 0 /\ drBefore = <<>> /\ drCalls = <<>> /\ drRet = 0

\* No _translate_text call has raised.
IdleFault == trRaised = [t \in {"P", "W"} |-> 0] /\ unwinding = FALSE

\* The application before main() has built anything.
IdleApp ==
    /\ state = STOPPED /\ last_error = <<>>
    /\ worker_generation = 0 /\ worker_thread = "none" /\ app_stop_event = "none"
    /\ asr_runtime_ready = FALSE
    /\ ready_q = <<>> /\ err_q = <<>>
    /\ loading = "off" /\ loading_hide_deadline = FALSE
    /\ appReady = {} /\ tickFound = NoTickFound

IdleRestart == InitRestart

\* utterances_from_audio_chunks was not called.
IdleChunker ==
    /\ frame_ms = 1 /\ min_speech_ms = 0 /\ end_silence_ms = 0
    /\ ckChannels = 1 /\ ckChunkFrames = 1 /\ ckChunkRem = 0
    /\ in_utt = FALSE /\ speech_frames = 0 /\ silence_run = 0
    /\ utter_pcm_parts = <<>> /\ utt_t0 = 0 /\ utt_t1 = 0 /\ frame_time = 0
    /\ ckPc = "off"
    /\ ckFrames = <<>> /\ ckOut = <<>> /\ ckFinals = <<>>

\* No EnergyVAD was built.
IdleVad == rms_threshold = 0 /\ vadPc = "off" /\ vadBuf = <<>> /\ vadResult = FALSE

\* _dedupe_repeated_words was not called.
IdleDedupe == ddText = <<>> /\ ddOut = <<>> /\ ddPc = "off"

\* _iter_committed_lines was not called.
IdleFilter ==
    flOp = "off" /\ flEn = <<>> /\ flPushed = FALSE /\ flYield = <<>> /\ flBefore = SegReset

\* No method of a tracker was called by itself.
IdleTracker == tkOp = "off" /\ tkPrev = [state |-> STOPPED, last_error |-> <<>>]

\* build_live_overlay_services was not called.
IdleServices == svArgs = DefaultArgs /\ svPc = "off" /\ svBuilt = NoServices

\* No call of the segmenter was observed.
IdleSegStep ==
    /\ sxOp = "off" /\ sxBefore = SegReset /\ sxFrag = NoFrag /\ sxOut = <<>>
    /\ sxSeen = <<>> /\ sxPrevEnd = <<>>

\* No text of a segmenter was followed.
IdleSegText == shOp = "off" /\ shPushed = <<>> /\ shEmitted = <<>>

\* No translate worker was followed to its end.
IdleWorkerStop ==
    /\ wsStop = FALSE /\ wsPc = "off" /\ wsJobs = <<>> /\ wsItem = 0
    /\ wsMade = 0 /\ wsAfterStop = 0

IdleSettings ==
    /\ args_model = "tiny" /\ args_ui_language = "en"
    /\ settingsFound = NoSettingsFound

IdlePause ==
    /\ pzState = STOPPED /\ pzPaused = FALSE
    /\ pzBus = <<>> /\ pzLines = <<>> /\ pzJobs = <<>> /\ pzMade = 0
    /\ pzLost = {} /\ pzTick = NoTick

IdleLate ==
    /\ IdleDedupe /\ IdleFilter /\ IdleTracker /\ IdleServices /\ IdleSegStep
    /\ IdleSegText /\ IdleWorkerStop /\ IdleSettings /\ IdlePause

IdleExt == IdleDrain /\ IdleFault /\ IdleApp /\ IdleRestart /\ IdleChunker /\ IdleVad /\ IdleLate

\* ------------------------------------------------------- specifications
Init ==
    /\ InitPipeline /\ IdleSeq /\ IdleWin /\ IdleSeg /\ IdleOrd /\ IdleLive /\ IdleExt

Next ==
    \/ \E t \in Threads : BusPut(t)
    \/ \E t \in Threads : BusGet(t)
    \/ \E t \in Threads : BusPut2(t)
    \/ POnAsr
    \/ JobPut
    \/ JobGet
    \/ JobPut2
    \/ PEnd
    \/ PFlush
    \/ PReport
    \/ WCheck
    \/ WGet
    \/ WTranslate
    \/ UiPop
    \/ UiStop

Spec == Init /\ [][Next]_vars

\* The pipeline at rest: no run was started.
IdlePipeline ==
    /\ queue_maxsize = 0 /\ async_translate = FALSE /\ max_lines = 1
    /\ bus = <<>> /\ jobs = <<>> /\ stop_event = FALSE
    /\ metrics = [en_commits |-> 0, ja_commits |-> 0, queue_drops |-> 0]
    /\ pc = [t \in Threads |-> "off"]
    /\ item = [t \in Threads |-> NoItem]
    /\ evicted = [t \in Threads |-> <<>>]
    /\ lines = <<>> /\ flushing = FALSE /\ reported = <<>>
    /\ pushLog = [by |-> None, line |-> NoItem, admitted |-> TRUE, evicted |-> <<>>,
                  wasFull |-> FALSE]
    /\ putLog = [by |-> None, job |-> NoItem, ret |-> FALSE, admitted |-> TRUE,
                 evicted |-> <<>>, wasFull |-> FALSE]
    /\ pPushed = 0

\* The pipeline with a translator that may raise.
NextFaulty ==
    \/ Next
    \/ WTranslateRaises
    \/ POnAsrRaises
    \/ PFlushRaises

SpecFaulty == Init /\ [][NextFaulty]_vars

\* A drop-oldest queue with one producer and then one consumer.
InitQueueSeq == InitSeq /\ IdlePipeline /\ IdleWin /\ IdleSeg /\ IdleOrd /\ IdleLive /\ IdleExt

NextQueueSeq ==
    \/ SeqPush
    \/ SeqStartDrain
    \/ SeqPop

SpecQueueSeq == InitQueueSeq /\ [][NextQueueSeq]_vars

\* The overlay window under any sequence of add_line calls and settings changes.
InitOverlay == InitWin /\ IdlePipeline /\ IdleSeq /\ IdleSeg /\ IdleOrd /\ IdleLive /\ IdleExt

NextOverlay ==
    \/ WinAddLine
    \/ WinApplySettings

SpecOverlay == InitOverlay /\ [][NextOverlay]_vars

\* One SubtitleSegmenter under any sequence of push and flush calls.
InitSegmenter == InitSeg /\ IdlePipeline /\ IdleSeq /\ IdleWin /\ IdleOrd /\ IdleLive /\ IdleExt

NextSegmenter ==
    \/ SegPush
    \/ SegFlush

SpecSegmenter == InitSegmenter /\ [][NextSegmenter]_vars

\* One SubtitleSegmenter, observed for the order of the lines it emits.
InitSegOrder == InitSeg /\ InitOrd /\ IdlePipeline /\ IdleSeq /\ IdleWin /\ IdleLive /\ IdleExt

NextSegOrder ==
    \/ OrdPush
    \/ OrdFlush

SpecSegOrder == InitSegOrder /\ [][NextSegOrder]_vars

\* One LiveUtteranceTranscriber.run() over any stream of speech and silence.
InitLiveRun == InitLive /\ IdlePipeline /\ IdleSeq /\ IdleWin /\ IdleSeg /\ IdleOrd /\ IdleExt

NextLiveRun ==
    \/ LiveChunk
    \/ LiveStreamEnd

SpecLiveRun == InitLiveRun /\ [][NextLiveRun]_vars

\* LiveUtteranceTranscriber.run() with a transcriber that may raise.
NextLiveFaulty ==
    \/ LiveChunk
    \/ LiveStreamEnd
    \/ LiveChunkRaises
    \/ LiveStreamEndRaises

SpecLiveFaulty == InitLiveRun /\ [][NextLiveFaulty]_vars

\* A SubtitleBus with a producer pushing and the tick draining it.
InitDrainSeq ==
    /\ InitDrain /\ IdlePipeline /\ IdleSeq /\ IdleWin /\ IdleSeg /\ IdleOrd /\ IdleLive
    /\ IdleFault /\ IdleApp /\ IdleRestart /\ IdleChunker /\ IdleVad /\ IdleLate

NextDrainSeq ==
    \/ DrainPush
    \/ DrainCall

SpecDrainSeq == InitDrainSeq /\ [][NextDrainSeq]_vars

\* The application: the user starts, stops and pauses, the worker thread
\* runs _worker_entry, the timer ticks.
InitAppRun ==
    /\ InitApp /\ IdlePipeline /\ IdleSeq /\ IdleWin /\ IdleSeg /\ IdleOrd /\ IdleLive
    /\ IdleDrain /\ IdleFault /\ IdleRestart /\ IdleChunker /\ IdleVad /\ IdleLate

NextApp ==
    \/ AppStart
    \/ AppStop
    \/ AppTogglePause
    \/ AppWorkerEntry
    \/ AppTick

SpecApp == InitAppRun /\ [][NextApp]_vars

\* Runs of _run_worker started and stopped one after the other on one bus.
InitRestartRun ==
    /\ InitRestart /\ IdlePipeline /\ IdleSeq /\ IdleWin /\ IdleSeg /\ IdleOrd /\ IdleLive
    /\ IdleDrain /\ IdleFault /\ IdleApp /\ IdleChunker /\ IdleVad /\ IdleLate

NextRestart ==
    \/ RsStart
    \/ RsStopRun
    \/ \E g \in Runs : RsCommit(g)
    \/ \E g \in Runs : RsPExit(g)
    \/ \E g \in Runs : RsWCheck(g)
    \/ \E g \in Runs : RsWGet(g)
    \/ \E g \in Runs : RsWTranslate(g)
    \/ \E g \in Runs : RsWPush(g)
    \/ RsTick

SpecRestart == InitRestartRun /\ [][NextRestart]_vars


\* utterances_from_audio_chunks over any stream of speech and silence frames.
InitChunkerRun ==
    /\ InitChunker /\ IdlePipeline /\ IdleSeq /\ IdleWin /\ IdleSeg /\ IdleOrd /\ IdleLive
    /\ IdleDrain /\ IdleFault /\ IdleApp /\ IdleRestart /\ IdleVad /\ IdleLate

NextChunker ==
    \/ ChunkerFrame
    \/ ChunkerStreamEnd

SpecChunker == InitChunkerRun /\ [][NextChunker]_vars

\* An EnergyVAD built with any threshold and asked about any buffer.
InitVadRun ==
    /\ InitVad /\ IdlePipeline /\ IdleSeq /\ IdleWin /\ IdleSeg /\ IdleOrd /\ IdleLive
    /\ IdleDrain /\ IdleFault /\ IdleApp /\ IdleRestart /\ IdleChunker /\ IdleLate

NextVad ==
    \/ VadConstruct
    \/ VadIsSpeech

SpecVad == InitVadRun /\ [][NextVad]_vars

\* _dedupe_repeated_words called with any text.
InitDedupeRun ==
    /\ InitDedupe /\ IdlePipeline /\ IdleSeq /\ IdleWin /\ IdleSeg /\ IdleOrd /\ IdleLive
    /\ IdleDrain /\ IdleFault /\ IdleApp /\ IdleRestart /\ IdleChunker /\ IdleVad
    /\ IdleFilter /\ IdleTracker /\ IdleServices /\ IdleSegStep /\ IdleSegText
    /\ IdleWorkerStop
    /\ IdleSettings
    /\ IdlePause

NextDedupe ==
    \/ DedupeCall

SpecDedupe == InitDedupeRun /\ [][NextDedupe]_vars

\* _iter_committed_lines called again and again on one segmenter.
InitFilterRun ==
    /\ InitFilter /\ InitSeg /\ IdleDedupe /\ IdleTracker /\ IdleServices /\ IdleSegStep
    /\ IdleSegText
    /\ IdlePipeline /\ IdleSeq /\ IdleWin /\ IdleOrd /\ IdleLive
    /\ IdleDrain /\ IdleFault /\ IdleApp /\ IdleRestart /\ IdleChunker /\ IdleVad
    /\ IdleWorkerStop
    /\ IdleSettings
    /\ IdlePause

NextFilter ==
    \/ FilterCall

SpecFilter == InitFilterRun /\ [][NextFilter]_vars

\* The methods of one RuntimeStateTracker called in any order.
InitTrackerRun ==
    /\ InitTracker /\ IdleApp /\ IdleDedupe /\ IdleFilter /\ IdleServices /\ IdleSegStep
    /\ IdleSegText
    /\ IdlePipeline /\ IdleSeq /\ IdleWin /\ IdleSeg /\ IdleOrd /\ IdleLive
    /\ IdleDrain /\ IdleFault /\ IdleRestart /\ IdleChunker /\ IdleVad
    /\ IdleWorkerStop
    /\ IdleSettings
    /\ IdlePause

NextTracker ==
    \/ TkSetStarting
    \/ TkSetRunning
    \/ TkSetPaused
    \/ TkSetResumed
    \/ TkSetStopped
    \/ TkSetError

SpecTracker == InitTrackerRun /\ [][NextTracker]_vars

\* build_live_overlay_services called with any arguments.
InitServicesRun ==
    /\ InitServices /\ IdleDedupe /\ IdleFilter /\ IdleTracker /\ IdleSegStep
    /\ IdleSegText
    /\ IdlePipeline /\ IdleSeq /\ IdleWin /\ IdleSeg /\ IdleOrd /\ IdleLive
    /\ IdleDrain /\ IdleFault /\ IdleApp /\ IdleRestart /\ IdleChunker /\ IdleVad
    /\ IdleWorkerStop
    /\ IdleSettings
    /\ IdlePause

NextServices ==
    \/ ServicesBuild

SpecServices == InitServicesRun /\ [][NextServices]_vars

\* One segmenter, pushed to and flushed in any order, each call observed.
InitSegStepRun ==
    /\ InitSegStep /\ InitSeg /\ IdleDedupe /\ IdleFilter /\ IdleTracker /\ IdleServices
    /\ IdleSegText
    /\ IdlePipeline /\ IdleSeq /\ IdleWin /\ IdleOrd /\ IdleLive
    /\ IdleDrain /\ IdleFault /\ IdleApp /\ IdleRestart /\ IdleChunker /\ IdleVad
    /\ IdleWorkerStop
    /\ IdleSettings
    /\ IdlePause

NextSegStep ==
    \/ SxPush
    \/ SxFlush

SpecSegStep == InitSegStepRun /\ [][NextSegStep]_vars

\* One segmenter, pushed to and flushed in any order, its text followed.
InitSegTextRun ==
    /\ InitSegText /\ InitSeg /\ IdleDedupe /\ IdleFilter /\ IdleTracker /\ IdleServices
    /\ IdleSegStep
    /\ IdlePipeline /\ IdleSeq /\ IdleWin /\ IdleOrd /\ IdleLive
    /\ IdleDrain /\ IdleFault /\ IdleApp /\ IdleRestart /\ IdleChunker /\ IdleVad
    /\ IdleWorkerStop
    /\ IdleSettings
    /\ IdlePause

NextSegText ==
    \/ ShPush
    \/ ShFlush

SpecSegText == InitSegTextRun /\ [][NextSegText]_vars

\* The translate worker and its stop signal.  The threads of the process are
\* scheduled again and again, so a step of _translator_loop that stays
\* possible is taken (weak fairness); the runner thread and the stop are
\* under no such obligation.
InitWorkerStopRun ==
    /\ InitWorkerStop /\ IdleDedupe /\ IdleFilter /\ IdleTracker /\ IdleServices
    /\ IdleSegStep /\ IdleSegText
    /\ IdlePipeline /\ IdleSeq /\ IdleWin /\ IdleSeg /\ IdleOrd /\ IdleLive
    /\ IdleDrain /\ IdleFault /\ IdleApp /\ IdleRestart /\ IdleChunker /\ IdleVad
    /\ IdleSettings
    /\ IdlePause

NextWorkerStop ==
    \/ WsEnqueue
    \/ WsStop
    \/ WsCheck
    \/ WsGet
    \/ WsTranslate
    \/ WsPush

SpecWorkerStop ==
    /\ InitWorkerStopRun /\ [][NextWorkerStop]_vars
    /\ WF_vars(WsCheck) /\ WF_vars(WsGet) /\ WF_vars(WsTranslate) /\ WF_vars(WsPush)

\* The application with its settings dialog.
InitSettingsRun ==
    /\ InitApp /\ InitSettings
    /\ IdleDedupe /\ IdleFilter /\ IdleTracker /\ IdleServices /\ IdleSegStep
    /\ IdleSegText /\ IdleWorkerStop
    /\ IdlePipeline /\ IdleSeq /\ IdleWin /\ IdleSeg /\ IdleOrd /\ IdleLive
    /\ IdleDrain /\ IdleFault /\ IdleRestart /\ IdleChunker /\ IdleVad
    /\ IdlePause

NextSettings ==
    \/ AppStart
    \/ AppStop
    \/ AppTogglePause
    \/ AppWorkerEntry
    \/ AppTick
    \/ AppOpenSettings

SpecSettings == InitSettingsRun /\ [][NextSettings]_vars

\* The overlay of a running runtime, paused and resumed while lines arrive.
InitPauseRun ==
    /\ InitPause
    /\ IdleDedupe /\ IdleFilter /\ IdleTracker /\ IdleServices /\ IdleSegStep
    /\ IdleSegText /\ IdleWorkerStop /\ IdleSettings
    /\ IdlePipeline /\ IdleSeq /\ IdleWin /\ IdleSeg /\ IdleOrd /\ IdleLive
    /\ IdleDrain /\ IdleFault /\ IdleApp /\ IdleRestart /\ IdleChunker /\ IdleVad

NextPause ==
    \/ PzCommit
    \/ PzTranslated
    \/ PzTogglePause
    \/ PzHotkeyPause
    \/ PzTick

SpecPause == InitPauseRun /\ [][NextPause]_vars

\* ----------------------------------------------------------------- claims

\* C1: whenever SubtitleBus.push returns, the pushed line has been admitted
\* (on a full bus after evicting exactly the single oldest line), under every
\* interleaving of the pipeline thread, the translation worker and the consumer.
C1_PushAlwaysAdmits ==
    pushLog.by # None =>
        /\ pushLog.admitted
        /\ pushLog.wasFull => Len(pushLog.evicted) = 1

\* C2: the Subtitle Bus never holds more than max(1, queue_maxsize) lines and the
\* job queue never more than its capacity, whatever the interleaving.
C2_QueuesBounded ==
    /\ Len(bus) <= Max(1, queue_maxsize)
    /\ Len(jobs) <= JobsMax

\* Both queues are full while a producer is between its failed put and the eviction.
C2_Witness ==
    /\ Len(bus) = Max(1, queue_maxsize)
    /\ Len(jobs) = JobsMax
    /\ \E t \in Threads : pc[t] = "push_get"

\* C3: with no concurrent consumer, pushing capacity + k distinct items (k >= 0)
\* and then draining yields exactly the last `capacity` items in FIFO order, exactly
\* k pushes report a drop, and a further pop returns empty.
C3_DropOldestSequential ==
    (sqPhase = "done" /\ Len(sqPushed) >= sqCap) =>
        /\ sqOut = LastN(sqPushed, sqCap)
        /\ sbOut = LastN(sqPushed, sqCap)
        /\ sqDrops = Len(sqPushed) - sqCap
        /\ sq = <<>> /\ sb = <<>>

\* A drain that ended after capacity + 2 pushes.
C3_Witness ==
    /\ sqPhase = "done"
    /\ sqCap = 2
    /\ Len(sqPushed) = sqCap + 2
    /\ sqDrops = 2

\* C4: _queue_put_drop_oldest returns True iff exactly one job (the oldest) was
\* discarded to admit the new one, and on every return the new job is in the queue,
\* also when the translation worker dequeues between the failed put and the eviction.
C4_PutDropOldestAdmits ==
    putLog.by # None =>
        /\ putLog.admitted
        /\ putLog.ret <=> Len(putLog.evicted) = 1

\* The new line is identical to a line of the window before the last add_line.
WinDuplicate == \E i \in 1..Len(winPrev) : SameLine(winPrev[i], winNew)

\* Positions of the window before the last add_line that held the English-only
\* form of the new line: blank translation, same English text up to surrounding
\* whitespace, same (t0, t1).
WinPendingAt == {i \in 1..Len(winPrev) : Pending(winPrev[i], winNew)}

\* C5 (as claimed): whenever the window holds an English-only line and the new
\* line is its translation, the new line replaces that entry at its position and
\* the window does not grow.
C5_ReplacesPending ==
    (winOp = "add" /\ winNew.ja # <<>> /\ WinPendingAt # {}) =>
        \E i \in WinPendingAt : win = [winPrev EXCEPT ![i] = winNew]

\* C5 (amended): the same, for a new line that is not identical to a line already
\* in the window; the entry replaced is the most recent pending one.
C5_ReplacesPendingUnlessDuplicate ==
    (winOp = "add" /\ winNew.ja # <<>> /\ WinPendingAt # {} /\ ~WinDuplicate) =>
        /\ \E i \in WinPendingAt :
              /\ win = [winPrev EXCEPT ![i] = winNew]
              /\ \A k \in WinPendingAt : k <= i
        /\ Len(win) = Len(winPrev)

\* The translation of the older of two displayed lines arrived and took its place.
C5_Witness ==
    /\ winOp = "add"
    /\ Len(winPrev) = 2
    /\ WinPendingAt = {1}
    /\ ~WinDuplicate
    /\ winNew.ja = <<"x">>
    /\ win[1] = winNew /\ win[2] = winPrev[2]

\* C6: a new line identical in (en, ja, t0, t1) to a line of the window leaves the
\* window as it was, so giving add_line the same line again changes nothing.
C6_DuplicateIsNoOp ==
    winOp = "add" =>
        /\ WinDuplicate => win = winPrev
        /\ add_line(win, winNew, FALSE, winMax) = win

\* A full window was given a line it already held at its first position.
C6_Witness ==
    /\ winOp = "add"
    /\ Len(winPrev) = 2
    /\ SameLine(winPrev[1], winNew)
    /\ win = winPrev

\* The new line was neither a duplicate nor a translation that replaced an entry.
WinAppended ==
    /\ ~WinDuplicate
    /\ ~(winNew.ja # <<>> /\ WinPendingAt # {})

\* C7: the window never holds more than the configured maximum number of lines,
\* and appending to a full window evicts exactly the oldest line.
C7_WindowCapped ==
    /\ Len(win) <= winMax
    /\ (winOp = "add" /\ WinAppended /\ Len(winPrev) < winMax) =>
          win = Append(winPrev, winNew)
    /\ (winOp = "add" /\ WinAppended /\ Len(winPrev) = winMax) =>
          win = Tail(winPrev) \o <<winNew>>

\* A line was appended to a full window of two lines.
C7_Witness ==
    /\ winOp = "add"
    /\ WinAppended
    /\ winMax = 2 /\ Len(winPrev) = 2
    /\ win = <<winPrev[2], winNew>>

\* C8: in every reachable state of the asynchronous pipeline the lines of the
\* display window are in non-decreasing order of start time.
C8_WindowOrdered ==
    async_translate =>
        \A i \in 1..(Len(lines) - 1) : lines[i].t0 <= lines[i + 1].t0

\* C9 (as claimed): for any texts and any timestamps, in any order, push and
\* flush never return a line whose t0 > t1.
C9_LineStartNotAfterEnd ==
    \A i \in 1..Len(segOut) : segOut[i].t0 <= segOut[i].t1

\* C9 (amended): push and flush never return a line whose t0 > t1 when every
\* fragment has t0 <= t1 and no fragment starts before the one pushed before it.
C9_LineStartNotAfterEndIfOrdered ==
    segOrdered => \A i \in 1..Len(segOut) : segOut[i].t0 <= segOut[i].t1

\* An ordered run of pushes returned a line that merges two fragments.
C9_Witness ==
    /\ segOrdered
    /\ segOp = "push"
    /\ Len(segBefore) = 1
    /\ segOut = <<[text |-> <<"a", " ", "c", ".">>, t0 |-> segBefore[1].t0,
                   t1 |-> segLast[1].t1]>>
    /\ segOut[1].t0 < segOut[1].t1

\* The line that holds exactly the fragments fs, in push order.
LineOf(fs) ==
    [text |-> Join([i \in 1..Len(fs) |-> fs[i].text]),
     t0   |-> fs[1].t0,
     t1   |-> fs[Len(fs)].t1]

\* C10: flush returns at most one line, made of exactly the fragments pushed since
\* the last commit; nothing when there are none; and it leaves the buffer empty, so
\* a second flush returns nothing.
C10_FlushReturnsRemainder ==
    segOp = "flush" =>
        /\ Len(segOut) <= 1
        /\ segBefore = <<>> => segOut = <<>>
        /\ segBefore # <<>> => segOut = <<LineOf(segBefore)>>
        /\ _buf = <<>>
        /\ SubtitleSegmenter_flush(SegState).out = <<>>

\* A flush returned a line of two fragments.
C10_Witness ==
    /\ segOp = "flush"
    /\ Len(segBefore) = 2
    /\ Len(segOut) = 1
    /\ segOut[1].text = <<"a", " ", "b">>

\* Each emitted line starts and ends no earlier than the line emitted before it:
\* the first line of the last call against the last line of the calls before, and
\* the lines of the last call among themselves.
OrdPairsMonotone ==
    /\ (ordEmitted # <<>> /\ segOut # <<>>) =>
           /\ ordEmitted[1].t0 <= segOut[1].t0
           /\ ordEmitted[1].t1 <= segOut[1].t1
    /\ \A i \in 1..(Len(segOut) - 1) :
           /\ segOut[i].t0 <= segOut[i + 1].t0
           /\ segOut[i].t1 <= segOut[i + 1].t1

\* C11 (as claimed): of any two lines one segmenter emits one after the other,
\* the later one starts and ends no earlier than the earlier one.
C11_LinesMonotone == OrdPairsMonotone

\* C11 (amended): the same, when no fragment pushed starts or ends before the
\* fragment pushed before it.
C11_LinesMonotoneIfInputMonotone == ordMono => OrdPairsMonotone

\* After an earlier line, one push over a pause returned two lines, the second
\* strictly later than the first.
C11_Witness ==
    /\ ordMono
    /\ ordEmitted # <<>>
    /\ segOp = "push"
    /\ Len(segOut) = 2
    /\ segOut[1].t1 < segOut[2].t0

\* C12: the line a push commits is the single-space join of every buffered
\* fragment, the pushed one included, in push order, from the start of the first
\* to the end of the last; a push that commits nothing and meets no pause returns
\* no line.
C12_CommitJoinsBuffered ==
    /\ (segOp = "push" /\ segOut # <<>> /\ segPending = <<>> /\ segLast # <<>>) =>
           segOut[Len(segOut)] =
               LineOf(IF Len(segOut) = 2 THEN segLast ELSE segBefore \o segLast)
    /\ (segOp = "push" /\ segLast # <<>> /\ segPending = segBefore \o segLast) =>
           segOut = <<>>

\* Two fragments that end no sentence were buffered, and the fragment that ends it
\* returned one line spanning the three.
C12_Witness ==
    /\ segOp = "push"
    /\ Len(segBefore) = 2
    /\ segPending = <<>>
    /\ segOut = <<[text |-> <<"a", " ", "b", " ", "c", ".">>,
                   t0 |-> 0, t1 |-> 2]>>

\* ------------------------------------------ LiveUtteranceTranscriber claims
LiveK == Len(liveChunks)
LastFinal == liveFinals[Len(liveFinals)]
FinalSec(f) == _duration_from_pcm16(PcmLen(f.pcm))

\* The chunk number after which the utterance finalized as liveFinals[i] began.
FinalFrom(i) == IF i = 1 THEN 0 ELSE liveFinals[i - 1].at

\* The last silence_chunks_to_finalize chunks were not speech and the chunk
\* before them was.
SilenceFollowsSpeech ==
    /\ LiveK > silence_chunks_to_finalize
    /\ \A j \in (LiveK - silence_chunks_to_finalize + 1)..LiveK : ~liveChunks[j]
    /\ liveChunks[LiveK - silence_chunks_to_finalize]

FinalizedBySilenceNow ==
    /\ liveFinals # <<>>
    /\ LastFinal.reason = "silence"
    /\ LastFinal.at = LiveK

\* C13: an utterance is finalized by silence exactly at the chunk that is the
\* silence_chunks_to_finalize-th non-speech chunk in a row after speech (unless
\* max_utter_sec closed the utterance at that speech chunk), and what is
\* finalized is every speech chunk since the previous finalization, starting at
\* the start time of the first of them.
C13_SilenceFinalizes ==
    /\ FinalizedBySilenceNow => SilenceFollowsSpeech
    /\ SilenceFollowsSpeech =>
          \/ FinalizedBySilenceNow
          \/ /\ max_utter_sec # <<>>
             /\ \E i \in 1..Len(liveFinals) :
                    /\ liveFinals[i].reason = "max_utter_sec"
                    /\ liveFinals[i].at = LiveK - silence_chunks_to_finalize
    /\ \A i \in 1..Len(liveFinals) :
          liveFinals[i].reason = "silence" =>
             LET f == liveFinals[i]
             IN  /\ {f.pcm[n] : n \in 1..Len(f.pcm)} =
                        {j \in (FinalFrom(i) + 1)..f.at : liveChunks[j]}
                 /\ \A n \in 1..(Len(f.pcm) - 1) : f.pcm[n] < f.pcm[n + 1]
                 /\ f.pcm # <<>>
                 /\ f.t0 = ChunkStart(f.pcm[1])

\* [silence, speech, speech, silence, silence] with threshold 2: one call, with
\* the two speech chunks, starting where the first of them starts.
C13_Witness ==
    /\ liveChunks = <<FALSE, TRUE, TRUE, FALSE, FALSE>>
    /\ silence_chunks_to_finalize = 2
    /\ max_utter_sec = <<>>
    /\ Len(liveFinals) = 1
    /\ liveCalls = <<[pcm |-> <<2, 3>>, t0 |-> ChunkStart(2)]>>
    /\ ~in_utterance

\* C14: with max_utter_sec set, the open utterance holds less than max_utter_sec
\* of audio after every chunk; an utterance is force-finalized by the chunk that
\* makes it reach max_utter_sec; and an open utterance starts at the start time of
\* its own first chunk, which comes after every finalized one.
C14_MaxUtterBounds ==
    max_utter_sec # <<>> =>
        /\ _duration_from_pcm16(utter_bytes) < max_utter_sec[1]
        /\ in_utterance =>
              /\ utter_parts # <<>>
              /\ utter_bytes = PcmLen(utter_parts)
              /\ utter_t0 = ChunkStart(utter_parts[1])
              /\ (livePc = "loop" /\ liveFinals # <<>>) => utter_parts[1] > LastFinal.at
        /\ \A i \in 1..Len(liveFinals) :
              liveFinals[i].reason = "max_utter_sec" =>
                 LET f == liveFinals[i]
                 IN  /\ FinalSec(f) >= max_utter_sec[1]
                     /\ FinalSec(f) - chunk_ticks < max_utter_sec[1]
                     /\ f.pcm[Len(f.pcm)] = f.at
                     /\ f.t0 = ChunkStart(f.pcm[1])

\* Five speech chunks of one tick with max_utter_sec 2: utterances starting at 0
\* and 2 were force-finalized and a third one, starting at 4, is open.
C14_Witness ==
    /\ liveChunks = <<TRUE, TRUE, TRUE, TRUE, TRUE>>
    /\ chunk_ticks = 1
    /\ max_utter_sec = <<2>>
    /\ Len(liveFinals) = 2
    /\ liveFinals[1].t0 = 0 /\ liveFinals[2].t0 = 2
    /\ in_utterance /\ utter_t0 = 4

\* The finalizations long enough to be transcribed, as (pcm, t0), in order.
RECURSIVE LongEnough(_)
LongEnough(fs) ==
    IF fs = <<>> THEN <<>>
    ELSE (IF FinalSec(Head(fs)) >= min_utter_sec
          THEN <<[pcm |-> Head(fs).pcm, t0 |-> Head(fs).t0]>> ELSE <<>>)
         \o LongEnough(Tail(fs))

\* C15: transcribe_utterance is called once for each finalized utterance of at
\* least min_utter_sec, with its bytes, and for nothing else; no chunk is in two
\* finalized utterances; and the accumulator is empty after a finalization inside
\* the loop.
C15_HandedOffOnce ==
    /\ liveCalls = LongEnough(liveFinals)
    /\ \A i, j \in 1..Len(liveFinals) :
          i < j => \A n \in 1..Len(liveFinals[i].pcm), m \in 1..Len(liveFinals[j].pcm) :
                      liveFinals[i].pcm[n] < liveFinals[j].pcm[m]
    /\ (liveFinals # <<>> /\ LastFinal.at = LiveK /\ LastFinal.reason # "stream_end") =>
          utter_parts = <<>> /\ utter_bytes = 0

\* Two utterances were transcribed, both long enough.
C15_Witness ==
    /\ Len(liveCalls) = 2
    /\ Len(liveFinals) = 2
    /\ min_utter_sec > 0
    /\ Len(liveCalls[1].pcm) = 2

\* C16: a finalized utterance shorter than min_utter_sec reaches neither the
\* transcriber nor on_asr, and inside the loop the machine is back in Idle with
\* an empty accumulator.
C16_ShortUtteranceSkipped ==
    \A i \in 1..Len(liveFinals) :
        FinalSec(liveFinals[i]) < min_utter_sec =>
            /\ \A c \in 1..Len(liveCalls) : liveCalls[c].pcm # liveFinals[i].pcm
            /\ \A a \in 1..Len(liveAsr) : liveAsr[a].t0 # liveFinals[i].t0
            /\ (i = Len(liveFinals) /\ liveFinals[i].at = LiveK
                   /\ liveFinals[i].reason # "stream_end") =>
                  /\ ~in_utterance /\ trailing_silence = 0
                  /\ utter_parts = <<>> /\ utter_bytes = 0

\* A short utterance was skipped by silence, and a later one was transcribed.
C16_Witness ==
    /\ Len(liveFinals) = 2
    /\ FinalSec(liveFinals[1]) < min_utter_sec
    /\ liveFinals[1].reason = "silence"
    /\ Len(liveCalls) = 1
    /\ Len(liveAsr) = 1

StreamEndFinals == {i \in 1..Len(liveFinals) : liveFinals[i].reason = "stream_end"}

\* C17: once the stream has ended, an utterance that was open has been finalized
\* exactly once, as the last finalization, with reason stream_end; if none was
\* open, nothing was finalized at the end; and nothing is finalized with that
\* reason before the stream ends.
C17_StreamEndFinalizes ==
    /\ livePc = "loop" => StreamEndFinals = {}
    /\ (livePc = "end" /\ in_utterance) =>
          /\ StreamEndFinals = {Len(liveFinals)}
          /\ LastFinal.pcm = utter_parts
          /\ LastFinal.t0 = utter_t0
          /\ utter_parts # <<>>
    /\ (livePc = "end" /\ ~in_utterance) => StreamEndFinals = {}

\* The stream ended with an utterance of two chunks open, after an earlier one.
C17_Witness ==
    /\ livePc = "end"
    /\ in_utterance
    /\ Len(liveFinals) = 2
    /\ LastFinal.reason = "stream_end"
    /\ Len(LastFinal.pcm) = 2

\* ---------------------------------------------- pipeline ordering claims
PushStates == {"push_put", "push_get", "push_put2"}
PutStates  == {"job_put", "job_get", "job_put2"}

\* The jobs that exist: queued, or taken by the worker and not yet translated.
JobsInFlight ==
    {jobs[i] : i \in 1..Len(jobs)}
        \cup (IF pc["W"] = "translate" THEN {item["W"]} ELSE {})

\* The translated lines that exist: being pushed by the worker, on the bus, or in
\* the window.
TranslatedInFlight ==
    (IF pc["W"] \in PushStates THEN {item["W"]} ELSE {})
        \cup {bus[i] : i \in {n \in 1..Len(bus) : bus[n].ja # <<>>}}
        \cup {lines[i] : i \in {n \in 1..Len(lines) : lines[n].ja # <<>>}}

\* C18: in asynchronous mode the pipeline thread has returned from pushing a
\* line's English-only DisplayLine before the line's job is enqueued, so before
\* any translation of it exists; and a translated line has the (t0, t1, en) of
\* its English line.
C18_EnglishBeforeTranslation ==
    async_translate =>
        /\ pc["P"] \in PutStates =>
              item["P"] = LineEN(pPushed) /\ pPushed = metrics.en_commits
        /\ \A j \in JobsInFlight :
              j.t0 \in 1..pPushed /\ j = JobOf(LineEN(j.t0))
        /\ \A l \in TranslatedInFlight :
              /\ l.t0 \in 1..pPushed
              /\ l.en = LineEN(l.t0).en /\ l.t1 = LineEN(l.t0).t1

\* The window shows the translation of the first line while the job of a later
\* line waits in the queue.
C18_Witness ==
    /\ async_translate
    /\ \E i \in 1..Len(lines) : lines[i].ja # <<>> /\ lines[i].t0 = 1
    /\ Len(jobs) > 0
    /\ pPushed >= 2

\* C19: every line the shutdown flush returns is on the bus when the push of it
\* returns and, in asynchronous mode, its job is in the job queue when
\* _queue_put_drop_oldest returns: nothing flushed at shutdown is lost.
C19_FlushedLineReachesBus ==
    [][/\ (flushing /\ pc["P"] \in PushStates /\ pc'["P"] \notin PushStates) =>
             pushLog'.by = "P" /\ pushLog'.admitted
       /\ (flushing /\ pc["P"] \in PutStates /\ pc'["P"] \notin PutStates) =>
             putLog'.admitted]_vars

\* C20: when the pipeline thread and the translation worker have both ended, no
\* job is left in the job queue: every job that was enqueued and not evicted was
\* taken by the worker.
C20_EveryJobTranslated ==
    (async_translate /\ pc["P"] = "done" /\ pc["W"] = "exit") => jobs = <<>>


\* ------------------------------------------------- failures in flight
\* C21: a failure of transcription is fatal only to the utterance in flight:
\* after transcribe_utterance has raised, run() is still in its loop over
\* the chunks (or has returned because the stream ended), it has not been
\* left by the exception, and inside the loop the state machine is back in
\* Idle with nothing accumulated.
C21_TranscriptionFailureNotFatal ==
    liveRaised > 0 =>
        /\ livePc \in {"loop", "end"}
        /\ (liveFinals # <<>> /\ LastFinal.at = Len(liveChunks) /\ livePc = "loop")
               => (~in_utterance /\ utter_parts = <<>>)


\* --------------------------------------------------- _drain_subtitle_bus
Min(a, b) == IF a <= b THEN a ELSE b

\* C24: _drain_subtitle_bus(bus, overlay, N) pops min(N, pending) lines, the
\* oldest first, hands each to overlay.add_line in that order, returns that
\* count, and leaves the other lines pending in their order.
C24_DrainPopsUpToN ==
    drOp = "drain" =>
        LET n == Min(drN, Len(drBefore))
        IN  /\ drRet = n
            /\ drCalls = SubSeq(drBefore, 1, n)
            /\ drBus = SubSeq(drBefore, n + 1, Len(drBefore))

\* a drain of two lines that leaves a third pending
C24_Witness ==
    /\ drOp = "drain" /\ drN = 2 /\ Len(drBefore) = 3
    /\ drRet = 2 /\ Len(drBus) = 1


\* C22: a failure of translation is fatal only to the job: the thread whose
\* _translate_text call raised goes on with later jobs (async: the worker is
\* not left by the exception; sync: the pipeline thread is neither left by
\* it nor sent into its shutdown block).
C22_TranslationFailureNotFatal ==
    \A t \in Threads :
        trRaised[t] > 0 => (pc[t] # "raised" /\ ~unwinding)


\* ------------------------------------------------- the counters reported
\* C23: the counters are reported once, at shutdown, and they are final: once
\* worker_stop has logged en_commits, ja_commits and queue_drops, the
\* counters of the run still have the values that were logged.
C23_ReportedCountersFinal ==
    reported # <<>> => reported[1] = metrics


\* ------------------------------------------------------ the application
\* C25: each started worker runs the pipeline and delivers the ready signal
\* tagged with its generation; the tick shows the listening indicator only
\* for a ready signal of the current generation.  So a worker thread that
\* has ended without a stop request had delivered its ready signal, and the
\* indicator is shown only when the current generation's signal was delivered.
C25_WorkerDeliversReady ==
    /\ (worker_thread = "dead" /\ app_stop_event # "set")
           => worker_generation \in appReady
    /\ loading = "ready" => worker_generation \in appReady

\* C26: when the tick finds the worker thread dead while the state is
\* RUNNING, PAUSED or STARTING, it reports a normal stop (STOPPED) only if
\* stop was requested for that run, and otherwise an unexpected termination
\* (ERROR with last_error set).
C26_WorkerStoppedReason ==
    tickFound.dead =>
        IF tickFound.requested
        THEN tickFound.state = STOPPED
        ELSE tickFound.state = ERROR /\ tickFound.last_error # <<>>

\* a tick has found the worker dead in a run nobody stopped, and reported it
C26_Witness ==
    /\ tickFound.dead /\ ~tickFound.requested
    /\ tickFound.state = ERROR /\ tickFound.last_error # <<>>
    /\ state = ERROR /\ last_error # <<>>


CkK == Len(ckFrames)

\* the time offset of frame k: its chunk's start time plus the frames of the
\* chunk before it
FrameTime(k) == ChunkStartTime(k) + ((k - 1) % ckChunkFrames) * frame_ms

\* the frame after which the utterance finalized as ckFinals[i] was looked for
CkFrom(i) == IF i = 1 THEN 0 ELSE ckFinals[i - 1].at

\* the first speech frame after frame a (0 if there is none)
FirstSpeechAfter(a) ==
    IF \E j \in (a + 1)..CkK : ckFrames[j]
    THEN CHOOSE j \in (a + 1)..CkK :
             ckFrames[j] /\ \A m \in (a + 1)..(j - 1) : ~ckFrames[m]
    ELSE 0

\* the first channel's samples of the frames a..b
MonoOf(a, b) == [i \in 1..(b - a + 1) |-> <<a + i - 1, 1>>]

\* the chunk yielded for ckFinals[i], when one was
CkOutOf(i) == ckOut[Cardinality({j \in 1..i : ckFinals[j].emitted})]

\* the length the run of trailing silence has to reach
CkEndSilence == Max(1, end_silence_ms \div frame_ms)

\* the last CkEndSilence frames were silence and the one before was speech
CkSilenceRunReached ==
    /\ CkK > CkEndSilence
    /\ \A j \in (CkK - CkEndSilence + 1)..CkK : ~ckFrames[j]
    /\ ckFrames[CkK - CkEndSilence]

CkFinalizedBySilenceNow ==
    /\ ckFinals # <<>>
    /\ ckFinals[Len(ckFinals)].reason = "silence"
    /\ ckFinals[Len(ckFinals)].at = CkK

\* C28: an utterance starts at the first speech frame, at that frame's time
\* offset, and retains every frame that follows, silence included; inside the
\* stream it finalizes exactly at the frame that makes the run of trailing
\* silence reach end_silence_frames = max(1, end_silence_ms // frame_ms), a
\* speech frame resetting the run; a chunk yielded is mono, starts where its
\* utterance started and lasts until the end of its last frame.
C28_ChunkerUtterance ==
    /\ ckPc = "loop" =>
          /\ CkFinalizedBySilenceNow <=> CkSilenceRunReached
          /\ LET a  == IF ckFinals = <<>> THEN 0 ELSE ckFinals[Len(ckFinals)].at
                 s0 == FirstSpeechAfter(a)
             IN  /\ in_utt <=> s0 # 0
                 /\ in_utt =>
                       /\ utt_t0 = FrameTime(s0)
                       /\ JoinBytes(utter_pcm_parts) = MonoOf(s0, CkK)
                       /\ utt_t1 = FrameTime(CkK) + frame_ms
                       /\ silence_run < CkEndSilence
                       /\ \A j \in (CkK - silence_run + 1)..CkK : ~ckFrames[j]
                       /\ ckFrames[CkK - silence_run]
    /\ \A i \in 1..Len(ckFinals) :
          ckFinals[i].emitted =>
             LET s0 == CHOOSE j \in (CkFrom(i) + 1)..ckFinals[i].at :
                           ckFrames[j] /\ \A m \in (CkFrom(i) + 1)..(j - 1) : ~ckFrames[m]
                 o  == CkOutOf(i)
             IN  /\ o.channels = 1
                 /\ o.pcm16 = MonoOf(s0, ckFinals[i].at)
                 /\ o.start_time = FrameTime(s0)
                 /\ o.duration = FrameTime(ckFinals[i].at) + frame_ms - FrameTime(s0)

\* [silence, speech, silence, speech, silence] with end_silence_frames = 1 in
\* stereo chunks of two frames and a leftover tick: two utterances, each with
\* its trailing silence frame
C28_Witness ==
    /\ ckFrames = <<FALSE, TRUE, FALSE, TRUE, FALSE>>
    /\ frame_ms = 2 /\ end_silence_ms = 2 /\ min_speech_ms = 0
    /\ ckChannels = 2 /\ ckChunkFrames = 2 /\ ckChunkRem = 1
    /\ Len(ckOut) = 2
    /\ ckOut[1] = [pcm16 |-> <<<<2, 1>>, <<3, 1>>>>, channels |-> 1,
                   start_time |-> 2, duration |-> 5]
    /\ ckOut[2].start_time = 7 /\ ckOut[2].duration = 5
    /\ ~in_utt

\* C29: a finalization, by trailing silence or at the end of the stream,
\* discards the utterance if it has fewer speech frames than the minimum
\* max(1, min_speech_ms // frame_ms) and otherwise yields exactly one chunk;
\* either way the chunker is back in Idle with nothing accumulated; and the end
\* of the stream runs the check once more exactly if an utterance is open.
C29_ChunkerFinalization ==
    /\ \A i \in 1..Len(ckFinals) :
          LET n == Cardinality({j \in (CkFrom(i) + 1)..ckFinals[i].at : ckFrames[j]})
          IN  ckFinals[i].emitted <=> n >= Max(1, min_speech_ms \div frame_ms)
    /\ Len(ckOut) = Cardinality({i \in 1..Len(ckFinals) : ckFinals[i].emitted})
    /\ (ckFinals # <<>> /\ ckFinals[Len(ckFinals)].at = CkK)
           => (~in_utt /\ utter_pcm_parts = <<>> /\ speech_frames = 0 /\ silence_run = 0)
    /\ \A i \in 1..Len(ckFinals) :
          ckFinals[i].reason = "stream_end" => (i = Len(ckFinals) /\ ckPc = "end")
    /\ ckPc = "end" =>
          /\ ~in_utt
          /\ LET stream_ends == {i \in 1..Len(ckFinals) : ckFinals[i].reason = "stream_end"}
                 a == IF \E i \in 1..Len(ckFinals) : ckFinals[i].reason = "silence"
                      THEN ckFinals[CHOOSE i \in 1..Len(ckFinals) :
                              /\ ckFinals[i].reason = "silence"
                              /\ \A m \in 1..Len(ckFinals) :
                                    ckFinals[m].reason = "silence" => m <= i].at
                      ELSE 0
             IN  Cardinality(stream_ends) = (IF FirstSpeechAfter(a) # 0 THEN 1 ELSE 0)

\* min_speech_frames = 2: the first utterance has one speech frame and is
\* discarded by silence, the second has two and is yielded at the end of the
\* stream
C29_Witness ==
    /\ ckFrames = <<TRUE, FALSE, TRUE, TRUE>>
    /\ frame_ms = 1 /\ min_speech_ms = 2 /\ end_silence_ms = 1
    /\ ckPc = "end"
    /\ Len(ckFinals) = 2
    /\ ~ckFinals[1].emitted /\ ckFinals[2].emitted
    /\ ckFinals[2].reason = "stream_end"
    /\ Len(ckOut) = 1 /\ ckOut[1].start_time = 2 /\ ckOut[1].duration = 2


\* ------------------------------------------------------------- EnergyVAD
\* RMS >= threshold, by the squares: sum of squares / n >= threshold^2; the
\* RMS of an empty buffer is 0
RmsAtLeast(samples, threshold) ==
    IF samples = <<>> THEN 0 >= threshold
    ELSE SumSq(samples) >= threshold * threshold * Len(samples)

\* C30 (as claimed): is_speech is false for a buffer whose RMS is below the
\* threshold, true for one whose RMS is at or above it, and false for an
\* empty buffer, for every non-negative threshold.
C30_GateByRms ==
    vadPc = "done" =>
        /\ vadResult <=> RmsAtLeast(vadBuf, rms_threshold)
        /\ vadBuf = <<>> => ~vadResult

\* C30 (amended): is_speech is false for a buffer whose RMS is below the
\* threshold and true for one whose RMS is at or above it; the RMS of an
\* empty buffer is 0, so for an empty buffer it is false when the threshold
\* is positive and true when the threshold is 0.
C30_GateByRmsEmptyIsZero ==
    vadPc = "done" =>
        /\ vadResult <=> RmsAtLeast(vadBuf, rms_threshold)
        /\ vadBuf = <<>> => (vadResult <=> rms_threshold = 0)

\* a buffer whose RMS is exactly the threshold is speech
C30_Witness ==
    /\ vadPc = "done" /\ rms_threshold = 2
    /\ vadBuf = <<2, 0 - 2>> /\ vadResult


\* ------------------------------------------------------- the text filters
SameWord(a, b) == LowerWord(a) = LowerWord(b)

\* the words of w without those that follow two occurrences of the same word
RECURSIVE WithoutExcess(_)
WithoutExcess(w) ==
    LET n == Len(w)
    IN  IF n = 0 THEN <<>>
        ELSE WithoutExcess(SubSeq(w, 1, n - 1)) \o
             (IF n > 2 /\ SameWord(w[n], w[n - 1]) /\ SameWord(w[n - 1], w[n - 2])
              THEN <<>> ELSE <<w[n]>>)

\* C31: _dedupe_repeated_words(text, max_repeat=2) returns the words of the
\* text, as spelled and in order, without the third and later words of every
\* run of one word (compared without case): no word stands more than twice in
\* a row in what it returns.
C31_DedupeKeepsTwo ==
    ddPc = "done" =>
        LET o == Split(ddOut)
        IN  /\ o = WithoutExcess(Split(ddText))
            /\ ddOut = Join(o)
            /\ \A i \in 3..Len(o) : ~(SameWord(o[i], o[i - 1]) /\ SameWord(o[i - 1], o[i - 2]))

\* "a A a b" gives "a A b"
C31_Witness ==
    /\ ddPc = "done"
    /\ ddText = <<"a", " ", "A", " ", "a", " ", "b">>
    /\ ddOut = <<"a", " ", "A", " ", "b">>


\* A fragment the claim discards: empty, of 2 or fewer characters, or one
\* word without terminal punctuation (. ! ? U+3002 U+FF01 U+FF1F).
Discarded(en) ==
    \/ en = <<>>
    \/ Len(en) <= 2
    \/ Len(Split(en)) = 1 /\ ~EndPunct(en)

\* C32: a fragment that, after stutter-collapsing, is empty, has 2 or fewer
\* characters, or is a single word without terminal punctuation yields nothing
\* and leaves the segmenter's buffer and timestamps unchanged; every other
\* fragment is pushed to the segmenter.
C32_LowValueDiscarded ==
    flOp = "call" =>
        IF Discarded(flEn)
        THEN ~flPushed /\ flYield = <<>> /\ SegState = flBefore
        ELSE flPushed


\* ------------------------------------------------- RuntimeStateTracker
TkMethods == {"set_starting", "set_running", "set_paused", "set_resumed",
              "set_stopped", "set_error"}

\* C33: the tracker enters PAUSED only through set_paused from RUNNING or
\* STARTING; set_resumed called in PAUSED leaves it in RUNNING; set_paused in
\* any other state and set_resumed in any state other than PAUSED leave state
\* and last_error as they were.
C33_PauseResume ==
    tkOp \in TkMethods =>
        /\ state = PAUSED /\ tkPrev.state # PAUSED =>
               tkOp = "set_paused" /\ tkPrev.state \in {RUNNING, STARTING}
        /\ tkOp = "set_resumed" /\ tkPrev.state = PAUSED => state = RUNNING
        /\ tkOp = "set_paused" /\ tkPrev.state \notin {RUNNING, STARTING} =>
               state = tkPrev.state /\ last_error = tkPrev.last_error
        /\ tkOp = "set_resumed" /\ tkPrev.state # PAUSED =>
               state = tkPrev.state /\ last_error = tkPrev.last_error

\* set_paused after an error changes nothing
C33_Witness ==
    /\ tkOp = "set_paused" /\ tkPrev.state = ERROR
    /\ state = ERROR /\ last_error = <<"boom">>


\* ------------------------------------------- build_live_overlay_services
\* C34: the transcriber is constructed with language None for the language
\* lock 'auto' and with language 'en' for the language lock 'en'.
C34_LanguageFromLock ==
    svPc = "built" =>
        /\ svArgs.language_lock = "auto" => svBuilt.language = <<>>
        /\ svArgs.language_lock = "en" => svBuilt.language = <<"en">>


\* ------------------------------------- SubtitleSegmenter, call by call
\* the last push met a pause: its fragment starts more than gap_sec after the
\* end of the fragment accepted before it
SxPause == sxPrevEnd # <<>> /\ sxFrag.t0 - sxPrevEnd[1] > GapSec

\* the fragments buffered when the last call began, and the line they make
SxBuffered == sxBefore.buf
SxBufferedLine ==
    [text |-> Join(SxBuffered), t0 |-> sxBefore.t0[1], t1 |-> sxPrevEnd[1]]

\* what the last push merged: the buffer it kept and its own fragment
SxMergedParts == Append(IF SxPause THEN <<>> ELSE SxBuffered, sxFrag.text)
SxMerged == Join(SxMergedParts)

\* the lines the last push returned before any commit of its merged text
SxPauseLines == IF SxPause /\ SxBuffered # <<>> THEN <<SxBufferedLine>> ELSE <<>>

\* C35: the buffer retained after a push never ends in terminal punctuation
\* and its merged length is below hard_max_chars: a push whose merged text ends
\* in terminal punctuation or reaches hard_max_chars commits the whole buffer as
\* one line and resets it; any other push commits nothing from the current
\* buffer and retains it.
C35_RetainedBufferOpen ==
    /\ ~EndPunct(Join(_buf)) /\ Len(Join(_buf)) < HardMaxChars
    /\ (sxOp = "push" /\ sxFrag.text # <<>>) =>
           IF EndPunct(SxMerged) \/ Len(SxMerged) >= HardMaxChars
           THEN /\ Len(sxOut) = Len(SxPauseLines) + 1
                /\ sxOut[Len(sxOut)].text = SxMerged
                /\ _buf = <<>> /\ _t0 = <<>> /\ _t1 = <<>>
           ELSE /\ sxOut = SxPauseLines
                /\ _buf = SxMergedParts

\* A push reached hard_max_chars without ending a sentence.
C35_Witness ==
    /\ sxOp = "push"
    /\ Len(SxBuffered) = 2
    /\ ~SxPause
    /\ ~EndPunct(SxMerged) /\ Len(SxMerged) >= HardMaxChars
    /\ Len(sxOut) = 1 /\ _buf = <<>>

\* C36: with text buffered, a fragment that starts more than gap_sec after the
\* end of the last accepted fragment makes push emit the buffered text first,
\* as a line of its own that ends where that fragment ended, and begin a new
\* buffer at the new fragment's t0; a gap of gap_sec or less never splits the
\* buffer.
C36_PauseBoundary ==
    (sxOp = "push" /\ sxFrag.text # <<>> /\ SxBuffered # <<>>) =>
        /\ sxPrevEnd # <<>>
        /\ IF sxFrag.t0 - sxPrevEnd[1] > GapSec
           THEN /\ sxOut # <<>> /\ sxOut[1] = SxBufferedLine
                /\ IF _buf # <<>>
                   THEN Len(sxOut) = 1 /\ _buf = <<sxFrag.text>> /\ _t0 = <<sxFrag.t0>>
                   ELSE /\ Len(sxOut) = 2
                        /\ sxOut[2] = [text |-> sxFrag.text, t0 |-> sxFrag.t0,
                                       t1 |-> sxFrag.t1]
           ELSE IF _buf # <<>>
                THEN /\ sxOut = <<>>
                     /\ _buf = Append(SxBuffered, sxFrag.text) /\ _t0 = sxBefore.t0
                ELSE /\ Len(sxOut) = 1
                     /\ sxOut[1].text = Join(Append(SxBuffered, sxFrag.text))
                     /\ sxOut[1].t0 = sxBefore.t0[1]

\* A fragment after a pause flushed the buffered line and began a new buffer.
C36_Witness ==
    /\ sxOp = "push" /\ SxBuffered # <<>> /\ SxPause
    /\ Len(sxOut) = 1 /\ sxOut[1].text = <<"a">>
    /\ _buf = <<<<"b">>>> /\ _t0 = <<sxFrag.t0>>


\* ------------------------------------- SubtitleSegmenter, its text
\* C38: the segmenter neither loses nor duplicates text: after a flush, the
\* texts of the lines emitted so far, joined, are the non-blank fragments
\* pushed so far, joined in push order; before it, what is missing from the
\* lines is what the buffer holds.
C38_TextConserved ==
    /\ shOp = "flush" => Join(shEmitted) = Join(shPushed) /\ _buf = <<>>
    /\ shOp \in {"init", "push", "flush"} => Join(shEmitted \o _buf) = Join(shPushed)

\* Two fragments were committed as one line and a third was flushed.
C38_Witness ==
    /\ shOp = "flush"
    /\ shPushed = << <<"a">>, <<"c", ".">>, <<"b">> >>
    /\ shEmitted = << <<"a", " ", "c", ".">>, <<"b">> >>


\* ------------------------------------------- the translate worker stops
\* C37: once the stop signal is set the translate worker loop ends: it does
\* not wait for ever on an empty job queue (the get times out and the loop
\* comes back to its stop check), the stop check after the signal leaves the
\* loop, and no more than one job is finished after the signal.
C37_WorkerStops ==
    /\ wsStop ~> (wsPc = "exit")
    /\ [][(wsStop /\ wsPc = "check") => wsPc' \in {"check", "exit"}]_wsPc
    /\ [][(wsStop /\ wsPc \in {"translate", "push"}) => wsPc' # "get"]_wsPc
    /\ [](wsAfterStop <= 1)

\* the worker has ended after the signal with a job still waiting, having
\* finished the one job it held when the signal came
C37_Witness ==
    /\ wsStop /\ wsPc = "exit"
    /\ wsJobs # <<>> /\ wsAfterStop = 1

\* C39: a change of a restart-requiring setting in an active state
\* (RUNNING, PAUSED, STARTING) leaves the runtime RUNNING with a new worker
\* generation, whose thread was started after the new values were stored.
C39_RestartOnSettings ==
    (settingsFound.called /\ settingsFound.restart) =>
        /\ settingsFound.state1 = RUNNING
        /\ settingsFound.gen1 = settingsFound.gen0 + 1
        /\ settingsFound.thread1 = "alive" /\ settingsFound.event1 = "clear"

\* the restart was asked for while the stopped run's thread had not ended
C39_RestartRefused ==
    /\ settingsFound.called /\ settingsFound.restart /\ settingsFound.alive
    /\ settingsFound.state1 = STOPPED
    /\ settingsFound.gen1 = settingsFound.gen0

\* C40: a drain made while the overlay is paused leaves the window as it was
\* and still takes its lines off the bus (the first min(n, pending) of them),
\* and no line handed to add_line during a pause is in the window at any
\* later time, the translation of a line already displayed included.
PzShown(l) == \E i \in 1..Len(pzLines) : SameLine(pzLines[i], l)

C40_PausedLinesLost ==
    /\ (pzTick.called /\ pzTick.paused) =>
          /\ pzTick.lines1 = pzTick.lines0
          /\ LET k == Min(pzTick.n, Len(pzTick.bus0))
             IN  pzTick.bus1 = SubSeq(pzTick.bus0, k + 1, Len(pzTick.bus0))
    /\ \A l \in pzLost : ~PzShown(l)

\* the pause is over; the translation of line 1 came during the pause, and
\* the window still shows line 1 without it
C40_Witness ==
    /\ ~pzPaused /\ pzState = RUNNING
    /\ LineJA(LineEN(1)) \in pzLost
    /\ PzShown(LineEN(1))
    /\ pzBus = <<>> /\ pzJobs = <<>>

====
